---------------------------- MODULE Spec2Model ----------------------------
(***************************************************************************)
(* Dialogue engine of dg-backend: the main agent's per-user state machine  *)
(* (app/adk_geospatial_agents/main_agent/agent.py), the parameter          *)
(* collector (shared/utils/parameter_collector.py), the location matcher   *)
(* (shared/utils/location_matcher_fixed.py, the kept source of the module  *)
(* the collector imports as shared/utils/location_matcher) and the intent  *)
(* detector (main_agent/tools.py).                                         *)
(*                                                                         *)
(* Text is modelled character by character: a Python str is a sequence of  *)
(* one-character strings, and the regular expressions, substring tests and *)
(* the difflib similarity ratio are computed on those sequences.  The      *)
(* alphabet is ASCII: the Korean keywords and patterns of the source can   *)
(* never match a message of the model and are left out of the lists.       *)
(***************************************************************************)
EXTENDS Integers, Sequences, FiniteSets, TLC

(***************************************************************************)
(* Python str primitives                                                   *)
(***************************************************************************)
SetMin(S) == CHOOSE x \in S : \A y \in S : x <= y

UpperLetters == <<"A","B","C","D","E","F","G","H","I","J","K","L","M",
                  "N","O","P","Q","R","S","T","U","V","W","X","Y","Z">>

LowerLetters == <<"a","b","c","d","e","f","g","h","i","j","k","l","m",
                  "n","o","p","q","r","s","t","u","v","w","x","y","z">>

DigitChars == <<"0","1","2","3","4","5","6","7","8","9">>

IsUpper(c) == \E i \in DOMAIN UpperLetters : UpperLetters[i] = c

IsLower(c) == \E i \in DOMAIN LowerLetters : LowerLetters[i] = c

IsDigit(c) == \E i \in DOMAIN DigitChars : DigitChars[i] = c

\* \w of the re module, on the model's alphabet
IsWordChar(c) == IsUpper(c) \/ IsLower(c) \/ IsDigit(c) \/ c = "_"

DigitValue(c) == (CHOOSE i \in DOMAIN DigitChars : DigitChars[i] = c) - 1

LowerChar(c) ==
    IF IsUpper(c)
    THEN LowerLetters[CHOOSE i \in DOMAIN UpperLetters : UpperLetters[i] = c]
    ELSE c

UpperChar(c) ==
    IF IsLower(c)
    THEN UpperLetters[CHOOSE i \in DOMAIN LowerLetters : LowerLetters[i] = c]
    ELSE c

\* str.lower()
StrLower(s) == [i \in 1..Len(s) |-> LowerChar(s[i])]

\* str.title(): a letter that follows a non-letter is upper-cased, the others lower-cased
StrTitle(s) ==
    [i \in 1..Len(s) |->
        IF i = 1 \/ ~(IsUpper(s[i-1]) \/ IsLower(s[i-1]))
        THEN UpperChar(s[i])
        ELSE LowerChar(s[i])]

\* str.strip()
StrStrip(s) ==
    LET keep == {i \in 1..Len(s) : s[i] # " "}
    IN  IF keep = {} THEN <<>> ELSE SubSeq(s, SetMin(keep), -SetMin({-i : i \in keep}))

\* s[i:i+len(p)] == p, for a 1-based position i
HasAt(s, i, p) ==
    /\ i >= 1
    /\ i + Len(p) - 1 <= Len(s)
    /\ SubSeq(s, i, i + Len(p) - 1) = p

\* p in s
Contains(s, p) == \E i \in 1..(Len(s) + 1) : HasAt(s, i, p)

\* s.split(',')
RECURSIVE SplitComma(_)
SplitComma(s) ==
    LET at == {i \in 1..Len(s) : s[i] = ","}
    IN  IF at = {}
        THEN <<s>>
        ELSE <<SubSeq(s, 1, SetMin(at) - 1)>>
                 \o SplitComma(SubSeq(s, SetMin(at) + 1, Len(s)))

(***************************************************************************)
(* Regular-expression primitives (re.search finds the leftmost match)      *)
(***************************************************************************)
\* the position after a greedy \s* that starts at i
SkipSpaces(s, i) ==
    LET stop == {j \in i..Len(s) : s[j] # " "}
    IN  IF stop = {} THEN (IF i > Len(s) THEN i ELSE Len(s) + 1) ELSE SetMin(stop)

\* the position after a greedy \d* that starts at i
SkipDigits(s, i) ==
    LET stop == {j \in i..Len(s) : ~IsDigit(s[j])}
    IN  IF stop = {} THEN (IF i > Len(s) THEN i ELSE Len(s) + 1) ELSE SetMin(stop)

DigitAt(s, i) == i >= 1 /\ i <= Len(s) /\ IsDigit(s[i])

SpaceAt(s, i) == i >= 1 /\ i <= Len(s) /\ s[i] = " "

\* \d{4} matches at i
FourDigitsAt(s, i) == \A k \in 0..3 : DigitAt(s, i + k)

\* int() of the digits s[i..j-1]
RECURSIVE IntOf(_, _, _)
IntOf(s, i, j) ==
    IF j <= i THEN 0 ELSE IntOf(s, i, j - 1) * 10 + DigitValue(s[j - 1])

\* int() of a (\d{4}) group at g
Int4(s, g) == IntOf(s, g, g + 4)

\* the leftmost of the positions at which a pattern matches, or 0
Leftmost(hits) == IF hits = {} THEN 0 ELSE SetMin(hits)

\* for pattern in patterns: match = re.search(...); if match and accepted: take it; break
FirstAccepted(matches, accepted, none) ==
    LET ok == {k \in DOMAIN matches : matches[k] \in accepted}
    IN  IF ok = {} THEN none ELSE matches[SetMin(ok)]

\* the position after  :?\s*  that starts at a, and after  \s*:?\s*  that starts at j
SkipColon(s, a) == SkipSpaces(s, IF HasAt(s, a, <<":">>) THEN a + 1 ELSE a)

AfterColon(s, j) == SkipColon(s, SkipSpaces(s, j))

(***************************************************************************)
(* ParameterCollector: configuration                                       *)
(***************************************************************************)
\* self.required_params
required_params(analysis_type) ==
    CASE analysis_type = "sea_level_rise" ->
             <<"country_name", "city_name", "year", "threshold">>
      [] analysis_type = "urban_analysis" ->
             <<"country_name", "city_name", "start_year", "end_year", "threshold">>
      [] analysis_type = "infrastructure_analysis" ->
             <<"country_name", "city_name", "year", "threshold">>
      [] analysis_type = "topic_modeling" -> <<"method", "n_topics">>
      [] OTHER -> <<>>

\* a variant of valid_years that takes the years to 2030
valid_years_to_2030 == 2000..2030

\* self.valid_years = list(range(2000, 2025))
valid_years == 2000..2024

\* self.valid_thresholds = (0.5, 5.0); a threshold is held in tenths of a metre
valid_thresholds == <<5, 50>>

\* 2 <= n_topics <= 20
valid_n_topics == 2..20

\* no match of a pattern
NoMatch == -1

(***************************************************************************)
(* _extract_parameters: the year patterns                                  *)
(***************************************************************************)
\* year_patterns[k] matched at i has its group at position YearGroup(k, s, i)
YearGroup(k, s, i) ==
    CASE k = 1 -> i
      [] k = 2 -> AfterColon(s, i + 4)
      [] k = 3 -> SkipSpaces(s, i + 2)
      [] k = 4 -> i

YearPatternAt(k, s, i) ==
    CASE k = 1 -> FourDigitsAt(s, i)
      [] k = 2 -> HasAt(s, i, <<"y","e","a","r">>) /\ FourDigitsAt(s, AfterColon(s, i + 4))
      [] k = 3 -> HasAt(s, i, <<"i","n">>) /\ SpaceAt(s, i + 2)
                     /\ FourDigitsAt(s, SkipSpaces(s, i + 2))
      [] k = 4 -> FourDigitsAt(s, i) /\ HasAt(s, SkipSpaces(s, i + 4), <<"y","e","a","r">>)

\* int(match.group(1)) of a match of year_patterns[k] at i (0: no match)
YearAt(k, s, i) == IF i = 0 THEN NoMatch ELSE Int4(s, YearGroup(k, s, i))

\* int(match.group(1)) of re.search(year_patterns[k], message_lower), or NoMatch
YearPattern(k, s) == YearAt(k, s, Leftmost({p \in 1..Len(s) : YearPatternAt(k, s, p)}))

\* the loop over the patterns r'(\d{4})', r'year\s*:?\s*(\d{4})', r'in\s+(\d{4})',
\* r'(\d{4})\s*year': the first pattern whose match is a valid year wins
ExtractYear(s) ==
    FirstAccepted([k \in 1..4 |-> YearPattern(k, s)], valid_years, NoMatch)

(***************************************************************************)
(* _extract_parameters: the year-range patterns of urban_analysis          *)
(***************************************************************************)
\* (\d{4}) at g: the position g, or 0
SecondYear(s, g) == IF FourDigitsAt(s, g) THEN g ELSE 0

\* (\d{4})\s*[dashes]\s*(\d{4}) at i, j after the \s*: the position of the second year, or 0
DashRange(s, i, j, dashes) ==
    IF FourDigitsAt(s, i) /\ (\E d \in dashes : HasAt(s, j, <<d>>))
    THEN SecondYear(s, SkipSpaces(s, j + 1))
    ELSE 0

\* (\d{4})\s+to\s+(\d{4}) at i, j after the \s+: the position of the second year, or 0
ToRange(s, i, j) ==
    IF FourDigitsAt(s, i) /\ SpaceAt(s, i + 4) /\ HasAt(s, j, <<"t","o">>) /\ SpaceAt(s, j + 2)
    THEN SecondYear(s, SkipSpaces(s, j + 2))
    ELSE 0

\* from\s+(\d{4})\s+to\s+(\d{4}) at i, the first year at a
FromRange(s, i, a) ==
    IF HasAt(s, i, <<"f","r","o","m">>) /\ SpaceAt(s, i + 4)
    THEN ToRange(s, a, SkipSpaces(s, a + 4))
    ELSE 0

\* the position of the second year of range_patterns[k] matched at i, or 0
RangeSecond(k, s, i) ==
    CASE k = 1 -> DashRange(s, i, SkipSpaces(s, i + 4), {"-", "~"})
      [] k = 2 -> ToRange(s, i, SkipSpaces(s, i + 4))
      [] k = 3 -> FromRange(s, i, SkipSpaces(s, i + 4))
      [] k = 4 -> DashRange(s, i, SkipSpaces(s, i + 4), {"-"})

\* <<int(match.group(1)), int(match.group(2))>> of a match of range_patterns[k] at i
RangeAt(k, s, i) ==
    IF i = 0 THEN <<>>
    ELSE <<Int4(s, IF k = 3 THEN SkipSpaces(s, i + 4) ELSE i), Int4(s, RangeSecond(k, s, i))>>

\* the two years of re.search(range_patterns[k], message_lower), or <<>>
RangePattern(k, s) == RangeAt(k, s, Leftmost({p \in 1..Len(s) : RangeSecond(k, s, p) # 0}))

\* a variant of ExtractRange that takes a range whose years are in any order
ExtractRangeUnordered(s) ==
    FirstAccepted([k \in 1..4 |-> RangePattern(k, s)], valid_years \X valid_years, <<>>)

\* the loop over the patterns r'(\d{4})\s*[-~]\s*(\d{4})', r'(\d{4})\s+to\s+(\d{4})',
\* r'from\s+(\d{4})\s+to\s+(\d{4})', r'(\d{4})\s*-\s*(\d{4})': the first match with
\* start_year in valid_years and end_year in valid_years and start_year <= end_year wins
ExtractRange(s) ==
    FirstAccepted([k \in 1..4 |-> RangePattern(k, s)],
                  {r \in valid_years \X valid_years : r[1] <= r[2]}, <<>>)

(***************************************************************************)
(* _extract_parameters: the threshold patterns                             *)
(***************************************************************************)
\* the position after (?:\.\d+)? that starts at e
FractionEnd(s, e) ==
    IF HasAt(s, e, <<".">>) /\ DigitAt(s, e + 1) THEN SkipDigits(s, e + 2) ELSE e

\* float() of the number s[i..], whose integer part ends before e, in tenths
\* (the messages carry one decimal at most)
Tenths(s, i, e) ==
    IntOf(s, i, e) * 10
      + (IF HasAt(s, e, <<".">>) /\ DigitAt(s, e + 1) THEN DigitValue(s[e + 1]) ELSE 0)

ThresholdGroup(k, s, i) == IF k = 2 THEN AfterColon(s, i + 9) ELSE i

ThresholdPatternAt(k, s, i) ==
    CASE k = 1 -> DigitAt(s, i)
                     /\ HasAt(s, SkipSpaces(s, FractionEnd(s, SkipDigits(s, i))), <<"m">>)
      [] k = 2 -> HasAt(s, i, <<"t","h","r","e","s","h","o","l","d">>)
                     /\ DigitAt(s, AfterColon(s, i + 9))
      [] k = 3 -> DigitAt(s, i)
                     /\ HasAt(s, SkipSpaces(s, FractionEnd(s, SkipDigits(s, i))), <<"m">>)
                     /\ HasAt(s, SkipSpaces(s, SkipSpaces(s, FractionEnd(s, SkipDigits(s, i))) + 1),
                              <<"t","h","r","e","s","h","o","l","d">>)

\* float(match.group(1)) of a match of threshold_patterns[k] at i (0: no match)
ThresholdAt(k, s, i) ==
    IF i = 0 THEN NoMatch
    ELSE Tenths(s, ThresholdGroup(k, s, i), SkipDigits(s, ThresholdGroup(k, s, i)))

ThresholdPattern(k, s) ==
    ThresholdAt(k, s, Leftmost({p \in 1..Len(s) : ThresholdPatternAt(k, s, p)}))

\* the loop over the patterns r'(\d+(?:\.\d+)?)\s*(?:meter|m|meters)',
\* r'threshold\s*:?\s*(\d+(?:\.\d+)?)', r'(\d+(?:\.\d+)?)\s*m\s*threshold': the first
\* match with valid_thresholds[0] <= threshold <= valid_thresholds[1] wins
ExtractThreshold(s) ==
    FirstAccepted([k \in 1..3 |-> ThresholdPattern(k, s)],
                  valid_thresholds[1]..valid_thresholds[2], NoMatch)

(***************************************************************************)
(* _extract_parameters: the topic-modeling patterns                        *)
(***************************************************************************)
Methods == <<<<"l","d","a">>, <<"n","m","f">>, <<"b","e","r","t","o","p","i","c">>>>

\* \b at i: exactly one of s[i-1], s[i] is a word character
WordBoundary(s, i) ==
    (i - 1 >= 1 /\ i - 1 <= Len(s) /\ IsWordChar(s[i - 1]))
        # (i >= 1 /\ i <= Len(s) /\ IsWordChar(s[i]))

\* the method named at position i, as an index of Methods, or 0
MethodAt(s, i) ==
    LET hit == {n \in DOMAIN Methods : HasAt(s, i, Methods[n])}
    IN  IF hit = {} THEN 0 ELSE SetMin(hit)

MethodPatternAt(k, s, i) ==
    CASE k = 1 -> MethodAt(s, i) # 0 /\ WordBoundary(s, i)
                     /\ WordBoundary(s, i + Len(Methods[MethodAt(s, i)]))
      [] k = 2 -> HasAt(s, i, <<"m","e","t","h","o","d">>) /\ MethodAt(s, AfterColon(s, i + 6)) # 0

\* match.group(1) of a match of method_patterns[k] at i (0: no match)
MethodMatch(k, s, i) ==
    IF i = 0 THEN <<>>
    ELSE Methods[MethodAt(s, IF k = 2 THEN AfterColon(s, i + 6) ELSE i)]

MethodPattern(k, s) ==
    MethodMatch(k, s, Leftmost({p \in 1..Len(s) : MethodPatternAt(k, s, p)}))

\* the loop over the patterns r'\b(lda|nmf|bertopic)\b',
\* r'method\s*:?\s*(lda|nmf|bertopic)': match.group(1) of the first that matches, or <<>>
ExtractMethod(s) ==
    FirstAccepted([k \in 1..2 |-> MethodPattern(k, s)],
                  {Methods[n] : n \in DOMAIN Methods}, <<>>)

NTopicsGroup(k, s, i) == IF k = 2 THEN AfterColon(s, i + 8) ELSE i

NTopicsPatternAt(k, s, i) ==
    CASE k = 1 -> DigitAt(s, i) /\ HasAt(s, SkipSpaces(s, SkipDigits(s, i)), <<"t","o","p","i","c">>)
      [] k = 2 -> HasAt(s, i, <<"n","_","t","o","p","i","c","s">>)
                     /\ DigitAt(s, AfterColon(s, i + 8))

\* int(match.group(1)) of a match of n_topics_patterns[k] at i (0: no match)
NTopicsAt(k, s, i) ==
    IF i = 0 THEN NoMatch
    ELSE IntOf(s, NTopicsGroup(k, s, i), SkipDigits(s, NTopicsGroup(k, s, i)))

NTopicsPattern(k, s) ==
    NTopicsAt(k, s, Leftmost({p \in 1..Len(s) : NTopicsPatternAt(k, s, p)}))

\* the loop over the patterns r'(\d+)\s*(?:topics|topic)', r'n_topics\s*:?\s*(\d+)':
\* the first match with 2 <= n_topics <= 20 wins
ExtractNTopics(s) ==
    FirstAccepted([k \in 1..2 |-> NTopicsPattern(k, s)], valid_n_topics, NoMatch)

(***************************************************************************)
(* Python dict primitives                                                  *)
(***************************************************************************)
EmptyDict == <<>>

\* d.get(k, default)
Get(d, k, default) == IF k \in DOMAIN d THEN d[k] ELSE default

\* {**a, **b}
Merge(a, b) ==
    [k \in (DOMAIN a) \cup (DOMAIN b) |-> IF k \in DOMAIN b THEN b[k] ELSE a[k]]

\* for key in keys: if key in d: del d[key]
DelKeys(d, keys) == [k \in (DOMAIN d) \ keys |-> d[k]]

(***************************************************************************)
(* LocationMatcher: the gazetteer.  worldcities.csv is not part of the     *)
(* sources; worldcities holds three of its rows, in file order.  The       *)
(* module-level instance location_matcher is state, assigned by _load_data *)
(* alone; the look-ups read its attributes as _load_data left them.        *)
(***************************************************************************)
VARIABLES
    user_states,        \* user_states[user_id]: the dict of that user
    last,               \* the last call: who called, the handler, and what it returned
    tasks,              \* tasks[slot]: a request the event loop holds, and what it has read
    location_matcher    \* the attributes of the instance all sessions share

worldcities ==
    <<[city |-> <<"S","e","o","u","l">>, country |-> <<"K","o","r","e","a",","," ","S","o","u","t","h">>, lat |-> 37, lng |-> 127],
      [city |-> <<"B","u","s","a","n">>, country |-> <<"K","o","r","e","a",","," ","S","o","u","t","h">>, lat |-> 35, lng |-> 129],
      [city |-> <<"T","o","k","y","o">>, country |-> <<"J","a","p","a","n">>, lat |-> 35, lng |-> 139]>>

InSeq(x, seq) == \E n \in DOMAIN seq : seq[n] = x

\* the distinct elements of seq, in order of appearance
RECURSIVE Distinct(_)
Distinct(seq) ==
    IF seq = <<>> THEN <<>>
    ELSE LET front == Distinct(SubSeq(seq, 1, Len(seq) - 1))
             x     == seq[Len(seq)]
         IN  IF InSeq(x, front) THEN front ELSE Append(front, x)

\* _load_data: the rows, and set(cities_df['country'].str.lower().unique()) in the
\* order list() gives it for as long as the process runs
LoadedData(rows) ==
    [cities_df |-> rows,
     countries |-> Distinct([n \in DOMAIN rows |-> StrLower(rows[n].country)])]

\* self.cities_df, as loaded
cities_df == LoadedData(worldcities).cities_df

\* self.cities_df['city'].str.lower().tolist()
CityNamesLower == [n \in DOMAIN cities_df |-> StrLower(cities_df[n].city)]

\* a variant of countries that is empty once a look-up has been made
countries_used_up ==
    IF last.handler = "none" THEN LoadedData(worldcities).countries ELSE <<>>

\* list(self.countries), as loaded
countries == LoadedData(worldcities).countries

(***************************************************************************)
(* LocationMatcher._calculate_similarity: difflib.SequenceMatcher.ratio()  *)
(* as the fraction <<2 * matches, len(a) + len(b)>>                        *)
(***************************************************************************)
\* the length of the longest common run of a from i and b from j
RECURSIVE CommonRun(_, _, _, _)
CommonRun(a, i, b, j) ==
    IF i <= Len(a) /\ j <= Len(b) /\ a[i] = b[j]
    THEN 1 + CommonRun(a, i + 1, b, j + 1)
    ELSE 0

\* find_longest_match: the longest block, the earliest in a, then the earliest in b
LongestMatch(a, b) ==
    LET starts == {x \in (1..Len(a)) \X (1..Len(b)) : a[x[1]] = b[x[2]]}
        size(x) == CommonRun(a, x[1], b, x[2])
        better(x, y) ==
            \/ size(x) > size(y)
            \/ size(x) = size(y) /\ x[1] < y[1]
            \/ size(x) = size(y) /\ x[1] = y[1] /\ x[2] <= y[2]
    IN  IF starts = {} THEN <<0, 0, 0>>
        ELSE LET best == CHOOSE x \in starts : \A y \in starts : better(x, y)
             IN  <<best[1], best[2], size(best)>>

\* the total size of get_matching_blocks(): the block m, and the blocks left and right of it
RECURSIVE MatchingChars(_, _)
RECURSIVE BlockSum(_, _, _)
BlockSum(a, b, m) ==
    IF m[3] = 0 THEN 0
    ELSE m[3]
           + MatchingChars(SubSeq(a, 1, m[1] - 1), SubSeq(b, 1, m[2] - 1))
           + MatchingChars(SubSeq(a, m[1] + m[3], Len(a)), SubSeq(b, m[2] + m[3], Len(b)))

MatchingChars(a, b) == BlockSum(a, b, LongestMatch(a, b))

_calculate_similarity(str1, str2) ==
    IF Len(str1) + Len(str2) = 0 THEN <<1, 1>>
    ELSE <<2 * MatchingChars(StrLower(str1), StrLower(str2)), Len(str1) + Len(str2)>>

\* comparison of two fractions with positive denominators
FracLess(x, y) == x[1] * y[2] < y[1] * x[2]

\* threshold: float = 0.8
DefaultThreshold == <<8, 10>>

\* a variant of BetterMatch that takes the last of the candidates with the best score
BetterMatchLastOfEqual(prev, candidate, score, threshold) ==
    IF ~FracLess(score, prev.best_score) /\ ~FracLess(score, threshold)
    THEN [best_match |-> candidate, best_score |-> score]
    ELSE prev

\* the body of the loop of _find_best_match for one candidate
BetterMatch(prev, candidate, score, threshold) ==
    IF FracLess(prev.best_score, score) /\ ~FracLess(score, threshold)
    THEN [best_match |-> candidate, best_score |-> score]
    ELSE prev

\* _find_best_match after the first n candidates
RECURSIVE BestMatchUpTo(_, _, _, _)
BestMatchUpTo(target, candidates, threshold, n) ==
    IF n = 0 THEN [best_match |-> <<>>, best_score |-> <<0, 1>>]
    ELSE BetterMatch(BestMatchUpTo(target, candidates, threshold, n - 1),
                     candidates[n],
                     _calculate_similarity(target, candidates[n]),
                     threshold)

_find_best_match(target, candidates, threshold) ==
    BestMatchUpTo(target, candidates, threshold, Len(candidates))

(***************************************************************************)
(* LocationMatcher.find_city, find_country                                 *)
(***************************************************************************)
\* the first row of cities_df whose lower-cased city is name
FirstRow(name) ==
    cities_df[SetMin({n \in DOMAIN cities_df : StrLower(cities_df[n].city) = name})]

\* the result of an exact match on row
ExactCity(row) ==
    [found |-> TRUE, exact_match |-> TRUE,
     city |-> row.city, country |-> row.country,
     coordinates |-> [lat |-> row.lat, lng |-> row.lng]]

\* the result of a similar city: row is the first row named best_match
SuggestedCity(suggested_city, best_score, row) ==
    [found |-> TRUE, exact_match |-> FALSE,
     city |-> row.city, country |-> row.country,
     coordinates |-> [lat |-> row.lat, lng |-> row.lng],
     suggested_city |-> suggested_city,
     suggested_country |-> row.country,
     similarity_score |-> best_score,
     message |-> [template |-> "did_you_mean", city |-> suggested_city,
                 country |-> row.country]]

\* if best_match: ... else: not found
SimilarCity(city_name, best) ==
    IF best.best_match # <<>>
    THEN SuggestedCity(StrTitle(best.best_match), best.best_score, FirstRow(best.best_match))
    ELSE [found |-> FALSE, message |-> [template |-> "city_not_found", city |-> city_name]]

\* the exact match on city_lower, then the similar cities
CityLookup(city_name, city_lower, threshold) ==
    IF InSeq(city_lower, CityNamesLower)
    THEN ExactCity(FirstRow(city_lower))
    ELSE SimilarCity(city_name, _find_best_match(city_lower, CityNamesLower, threshold))

find_city(city_name, threshold) ==
    IF city_name = <<>> \/ cities_df = <<>>
    THEN [found |-> FALSE, message |-> [template |-> "no_city_data"]]
    ELSE CityLookup(city_name, StrStrip(StrLower(city_name)), threshold)

\* special_mappings
special_mappings(country_lower) ==
    CASE country_lower = <<"s","o","u","t","h"," ","k","o","r","e","a">> -> <<"k","o","r","e","a",","," ","s","o","u","t","h">>
      [] country_lower = <<"n","o","r","t","h"," ","k","o","r","e","a">> -> <<"k","o","r","e","a",","," ","n","o","r","t","h">>
      [] country_lower = <<"u","n","i","t","e","d"," ","s","t","a","t","e","s">> -> <<"u","n","i","t","e","d"," ","s","t","a","t","e","s"," ","o","f"," ","a","m","e","r","i","c","a">>
      [] country_lower = <<"u","s","a">> -> <<"u","n","i","t","e","d"," ","s","t","a","t","e","s"," ","o","f"," ","a","m","e","r","i","c","a">>
      [] country_lower = <<"u","k">> -> <<"u","n","i","t","e","d"," ","k","i","n","g","d","o","m">>
      [] country_lower = <<"u","n","i","t","e","d"," ","k","i","n","g","d","o","m">> -> <<"u","n","i","t","e","d"," ","k","i","n","g","d","o","m">>
      [] OTHER -> country_lower

\* one more row of .head(5), if row lies in the country name
WithCity(front, row, name) ==
    IF StrLower(row.country) = name /\ Len(front) < 5
    THEN Append(front, [city |-> row.city, lat |-> row.lat, lng |-> row.lng])
    ELSE front

\* cities_df[cities_df['country'].str.lower() == name].head(5) as a list of dicts
RECURSIVE CountryCities(_, _)
CountryCities(name, n) ==
    IF n = 0 THEN <<>> ELSE WithCity(CountryCities(name, n - 1), cities_df[n], name)

\* the result of a similar country
SuggestedCountry(suggested_country, best_score, cities_list) ==
    [found |-> TRUE, exact_match |-> FALSE,
     country |-> suggested_country,
     cities |-> cities_list,
     suggested_country |-> suggested_country,
     similarity_score |-> best_score,
     message |-> [template |-> "did_you_mean", country |-> suggested_country]]

\* if best_match: ... else: not found
SimilarCountry(country_name, best) ==
    IF best.best_match # <<>>
    THEN SuggestedCountry(StrTitle(best.best_match), best.best_score,
                          CountryCities(best.best_match, Len(cities_df)))
    ELSE [found |-> FALSE,
          message |-> [template |-> "country_not_found", country |-> country_name]]

\* the exact match on the mapped country_lower, then the similar countries
CountryLookup(country_name, country_lower, threshold) ==
    IF InSeq(country_lower, countries)
    THEN [found |-> TRUE, exact_match |-> TRUE,
          country |-> StrTitle(country_name),
          cities |-> CountryCities(country_lower, Len(cities_df))]
    ELSE SimilarCountry(country_name, _find_best_match(country_lower, countries, threshold))

find_country(country_name, threshold) ==
    IF country_name = <<>> \/ cities_df = <<>>
    THEN [found |-> FALSE, message |-> [template |-> "no_country_data"]]
    ELSE CountryLookup(country_name, special_mappings(StrStrip(StrLower(country_name))),
                       threshold)

(***************************************************************************)
(* LocationMatcher.extract_location_from_message                           *)
(***************************************************************************)
\* negative_words, on the model's alphabet
negative_words == <<<<"n","o",",">>>>

\* non_location_words, on the model's alphabet
non_location_words ==
    {<<"y","e","a","r">>, <<"m","e","t","e","r">>, <<"m">>, <<"t","h","r","e","s","h","o","l","d">>, <<"y","e","s">>, <<"n","o">>, <<"o","k">>, <<"o","k","a","y">>}

\* message[len(word):].strip() for the first word of hit; the message if there is none
CutWord(message, hit) ==
    IF hit = {} THEN message
    ELSE StrStrip(SubSeq(message, Len(negative_words[SetMin(hit)]) + 1, Len(message)))

\* the message after the leading negative word, if any, is cut off
StripNegative(message) ==
    CutWord(message, {n \in DOMAIN negative_words :
                         HasAt(StrLower(message), 1, negative_words[n])})

\* find_city or find_country with the default threshold
FindBy(kind, text) ==
    IF kind = "city" THEN find_city(text, DefaultThreshold)
    ELSE find_country(text, DefaultThreshold)

LocationNotFound == [found |-> FALSE, message |-> [template |-> "location_not_found"]]

\* the searches a search_type runs, in order ("auto": the cities first, then the countries)
SearchKinds(search_type) ==
    CASE search_type = "city" -> <<"city">>
      [] search_type = "country" -> <<"country">>
      [] OTHER -> <<"city", "country">>

\* [part.strip() for part in message.split(',')]
StripParts(parts) == [n \in DOMAIN parts |-> StrStrip(parts[n])]

\* the loops `for part in parts` of the kinds, laid end to end as <<kind, part>>
PartSearches(kinds, parts) ==
    [n \in 1..(Len(kinds) * Len(parts)) |->
        <<kinds[((n - 1) \div Len(parts)) + 1], parts[((n - 1) % Len(parts)) + 1]>>]

\* the result of each search of a part; a part that fails
\* `part.lower() not in non_location_words and len(part) > 2` is not searched
PartResults(searches) ==
    [n \in DOMAIN searches |->
        IF StrLower(searches[n][2]) \notin non_location_words /\ Len(searches[n][2]) > 2
        THEN FindBy(searches[n][1], searches[n][2])
        ELSE LocationNotFound]

\* if result["found"]: return result, for the results in order; else the final return
FirstFound(results) ==
    LET hit == {n \in DOMAIN results : results[n].found}
    IN  IF hit = {} THEN LocationNotFound ELSE results[SetMin(hit)]

\* the single text: "city" and "country" return the search's result as it is
TextResult(search_type, results) ==
    IF search_type \in {"city", "country"} THEN results[1] ELSE FirstFound(results)

TextResults(kinds, message) == [n \in DOMAIN kinds |-> FindBy(kinds[n], message)]

\* the message after strip() and the cut of the negative word
LocationIn(message, search_type) ==
    IF StrLower(message) \in non_location_words
    THEN [found |-> FALSE, message |-> [template |-> "not_a_location"]]
    ELSE IF Contains(message, <<",">>)
    THEN FirstFound(PartResults(PartSearches(SearchKinds(search_type),
                                             StripParts(SplitComma(message)))))
    ELSE TextResult(search_type, TextResults(SearchKinds(search_type), message))

extract_location_from_message(message0, search_type) ==
    IF message0 = <<>> \/ cities_df = <<>>
    THEN [found |-> FALSE, message |-> [template |-> "no_location_data"]]
    ELSE LocationIn(StripNegative(StrStrip(message0)), search_type)

(***************************************************************************)
(* The messages users send.  What a message alone decides (the matches of  *)
(* the patterns, the locations found) is tabulated per message.            *)
(***************************************************************************)
Messages ==
    { \* hello
      <<"h","e","l","l","o">>,
      \* urban analysis
      <<"u","r","b","a","n"," ","a","n","a","l","y","s","i","s">>,
      \* sea level rise
      <<"s","e","a"," ","l","e","v","e","l"," ","r","i","s","e">>,
      \* sea level rise 2020
      <<"s","e","a"," ","l","e","v","e","l"," ","r","i","s","e"," ","2","0","2","0">>,
      \* infrastructure
      <<"i","n","f","r","a","s","t","r","u","c","t","u","r","e">>,
      \* topic modeling
      <<"t","o","p","i","c"," ","m","o","d","e","l","i","n","g">>,
      \* Seoul, sea level 2020 1.5m
      <<"S","e","o","u","l",","," ","s","e","a"," ","l","e","v","e","l"," ","2","0","2","0"," ","1",".","5","m">>,
      \* topic modeling lda 10 topics
      <<"t","o","p","i","c"," ","m","o","d","e","l","i","n","g"," ","l","d","a"," ","1","0"," ","t","o","p","i","c","s">>,
      \* South Korea
      <<"S","o","u","t","h"," ","K","o","r","e","a">>,
      \* Seoul
      <<"S","e","o","u","l">>,
      \* Busann
      <<"B","u","s","a","n","n">>,
      \* 2020
      <<"2","0","2","0">>,
      \* 2014
      <<"2","0","1","4">>,
      \* 2030
      <<"2","0","3","0">>,
      \* 2014-2020
      <<"2","0","1","4","-","2","0","2","0">>,
      \* 1.5m
      <<"1",".","5","m">>,
      \* lda
      <<"l","d","a">>,
      \* 10 topics
      <<"1","0"," ","t","o","p","i","c","s">>,
      \* yes
      <<"y","e","s">>,
      \* no
      <<"n","o">>,
      \* no, Seoul
      <<"n","o",","," ","S","e","o","u","l">> }

\* re.search of every pattern list on message_lower
PatternsIn(message_lower) ==
    [year |-> ExtractYear(message_lower),
     range |-> ExtractRange(message_lower),
     threshold |-> ExtractThreshold(message_lower),
     method |-> ExtractMethod(message_lower),
     n_topics |-> ExtractNTopics(message_lower)]

PatternsOf == [message \in Messages |-> PatternsIn(StrLower(message))]

\* location_matcher.extract_location_from_message(message, "city" / "country")
LocationOf ==
    [message \in Messages |->
        [search_type \in {"city", "country"} |->
            extract_location_from_message(message, search_type)]]

(***************************************************************************)
(* ParameterCollector._extract_parameters                                  *)
(***************************************************************************)
\* a variant of ExtractedYears that gives a single year to start_year every time
ExtractedYearsToStart(analysis_type, existing_params, range, year) ==
    IF analysis_type = "urban_analysis"
    THEN IF range # <<>>
         THEN [start_year |-> range[1], end_year |-> range[2]]
         ELSE IF year = NoMatch THEN EmptyDict
         ELSE [start_year |-> year]
    ELSE IF year = NoMatch THEN EmptyDict ELSE [year |-> year]

\* the year keys extracted, from the matches range and year of the patterns
ExtractedYears(analysis_type, existing_params, range, year) ==
    IF analysis_type = "urban_analysis"
    THEN IF range # <<>>
         THEN [start_year |-> range[1], end_year |-> range[2]]
         ELSE IF year = NoMatch THEN EmptyDict
         ELSE IF "start_year" \in DOMAIN existing_params
         THEN [end_year |-> year]
         ELSE [start_year |-> year]
    ELSE IF year = NoMatch THEN EmptyDict ELSE [year |-> year]

\* a variant of ExtractedLocation in which an exact city leaves the country alone
ExtractedLocationCityOnly(city_result, country_result) ==
    IF city_result.found /\ Get(city_result, "exact_match", FALSE)
    THEN [city_name |-> city_result.city, coordinates |-> city_result.coordinates]
    ELSE IF city_result.found
    THEN [suggested_city |-> city_result.suggested_city,
          suggested_country |-> city_result.suggested_country,
          suggestion_message |-> city_result.message]
    ELSE IF country_result.found /\ Get(country_result, "exact_match", FALSE)
    THEN [country_name |-> country_result.country]
    ELSE [location_error |-> "location_not_found"]

\* the location keys extracted: the city search first, then the country search
ExtractedLocation(city_result, country_result) ==
    IF city_result.found
    THEN IF Get(city_result, "exact_match", FALSE)
         THEN [city_name |-> city_result.city,
               country_name |-> city_result.country,
               coordinates |-> city_result.coordinates]
         ELSE [suggested_city |-> city_result.suggested_city,
               suggested_country |-> city_result.suggested_country,
               suggestion_message |-> city_result.message]
    ELSE IF country_result.found
    THEN IF Get(country_result, "exact_match", FALSE)
         THEN IF Get(country_result, "cities", <<>>) # <<>>
              THEN [country_name |-> country_result.country,
                    suggested_cities |-> country_result.cities]
              ELSE [country_name |-> country_result.country]
         ELSE [suggested_country |-> country_result.suggested_country,
               suggestion_message |-> country_result.message]
    ELSE [location_error |-> "location_not_found"]

\* a variant of ExactLocation that finds no exact location
ExactLocationNever(city_result, country_result) == FALSE

\* an exact city or an exact country was found: the stale keys of existing_params go
ExactLocation(city_result, country_result) ==
    IF city_result.found THEN Get(city_result, "exact_match", FALSE)
    ELSE country_result.found /\ Get(country_result, "exact_match", FALSE)

ExtractedTopic(analysis_type, method, n_topics) ==
    IF analysis_type # "topic_modeling" THEN EmptyDict
    ELSE Merge(IF method = <<>> THEN EmptyDict ELSE [method |-> method],
               IF n_topics = NoMatch THEN EmptyDict ELSE [n_topics |-> n_topics])

\* a variant of ExtractedFrom that leaves existing_params as it was
ExtractedFromKeepingStale(analysis_type, existing_params, patterns, location) ==
    [extracted |->
         Merge(Merge(Merge(ExtractedYears(analysis_type, existing_params,
                                          patterns.range, patterns.year),
                           IF patterns.threshold = NoMatch THEN EmptyDict
                           ELSE [threshold |-> patterns.threshold]),
                     ExtractedLocation(location.city, location.country)),
               ExtractedTopic(analysis_type, patterns.method, patterns.n_topics)),
     existing_params |-> existing_params]

\* the dict returned, and existing_params as the call leaves it (it deletes in place),
\* from the matches of the patterns and the two location searches of the message
ExtractedFrom(analysis_type, existing_params, patterns, location) ==
    [extracted |->
         Merge(Merge(Merge(ExtractedYears(analysis_type, existing_params,
                                          patterns.range, patterns.year),
                           IF patterns.threshold = NoMatch THEN EmptyDict
                           ELSE [threshold |-> patterns.threshold]),
                     ExtractedLocation(location.city, location.country)),
               ExtractedTopic(analysis_type, patterns.method, patterns.n_topics)),
     existing_params |->
         IF ExactLocation(location.city, location.country)
         THEN DelKeys(existing_params, {"location_error", "suggestion_message",
                                        "suggested_city", "suggested_country"})
         ELSE existing_params]

_extract_parameters(message, analysis_type, existing_params) ==
    ExtractedFrom(analysis_type, existing_params, PatternsOf[message], LocationOf[message])

(***************************************************************************)
(* ParameterCollector._validate_parameters, are_all_parameters_collected,  *)
(* collect_parameters, generate_questions                                  *)
(***************************************************************************)
\* the elif chain of the loop over required, for a parameter that is present
InvalidRequired(params, param) ==
    \/ param \in {"year", "start_year", "end_year"} /\ params[param] \notin valid_years
    \/ param = "threshold"
          /\ ~(valid_thresholds[1] <= params[param] /\ params[param] <= valid_thresholds[2])

StartAfterEnd(params, analysis_type) ==
    /\ analysis_type = "urban_analysis"
    /\ "start_year" \in DOMAIN params
    /\ "end_year" \in DOMAIN params
    /\ params["start_year"] # 0
    /\ params["end_year"] # 0
    /\ params["start_year"] > params["end_year"]

\* the messages of invalid: the parameter each is about, then the cross-field one
InvalidParams(params, required, analysis_type) ==
    SelectSeq(required, LAMBDA param : param \in DOMAIN params /\ InvalidRequired(params, param))
        \o (IF StartAfterEnd(params, analysis_type)
            THEN <<"start_year_after_end_year">> ELSE <<>>)

\* missing.remove('location'), missing.remove('location_error')
WithoutLocation(params, missing) ==
    IF {"location_error", "city_name", "country_name"} \subseteq DOMAIN params
    THEN SelectSeq(missing, LAMBDA param : param \notin {"location", "location_error"})
    ELSE missing

\* a variant of ValidationResult that looks at the missing parameters only to say valid
ValidationResultMissingOnly(params, missing, invalid) ==
    [valid |-> Len(missing) = 0,
     missing |-> missing,
     invalid |-> invalid,
     params |-> params]

ValidationResult(params, missing, invalid) ==
    [valid |-> Len(missing) = 0 /\ Len(invalid) = 0,
     missing |-> missing,
     invalid |-> invalid,
     params |-> params]

_validate_parameters(params, analysis_type) ==
    ValidationResult(params,
                     WithoutLocation(params,
                                     SelectSeq(required_params(analysis_type),
                                               LAMBDA param : param \notin DOMAIN params)),
                     InvalidParams(params, required_params(analysis_type), analysis_type))

\* a variant of AllCollected for which the parameters are never all collected
AllCollectedNever(validation) == FALSE

\* a variant of AllCollected that looks at the missing parameters only
AllCollectedMissingOnly(validation) == Len(validation.missing) = 0

AllCollected(validation) == validation.valid /\ Len(validation.missing) = 0

are_all_parameters_collected(params, analysis_type) ==
    AllCollected(_validate_parameters(params, analysis_type))

\* a variant of WithoutLocationError that deletes nothing
KeepingLocationError(all_params) == all_params

\* del all_params['location_error'] when city_name and country_name are both there
WithoutLocationError(all_params) ==
    IF {"location_error", "city_name", "country_name"} \subseteq DOMAIN all_params
       /\ all_params["city_name"] # <<>> /\ all_params["country_name"] # <<>>
    THEN DelKeys(all_params, {"location_error"})
    ELSE all_params

\* the validation of the merged parameters
Validated(all_params, analysis_type) ==
    [params |-> all_params,
     validation |-> _validate_parameters(all_params, analysis_type),
     needs_more_info |-> ~_validate_parameters(all_params, analysis_type).valid]

\* a variant of Merged in which the value collected earlier wins over the extracted one
MergedOldWins(ex, analysis_type) ==
    Validated(WithoutLocationError(Merge(ex.extracted, ex.existing_params)), analysis_type)

\* {**existing_params, **extracted} of what _extract_parameters returned and left
Merged(ex, analysis_type) ==
    Validated(WithoutLocationError(Merge(ex.existing_params, ex.extracted)), analysis_type)

collect_parameters(message, analysis_type, existing_params) ==
    Merged(_extract_parameters(message, analysis_type, existing_params), analysis_type)

\* self.parameter_questions[analysis_type]: the parameters that have a template
parameter_questions(analysis_type) ==
    CASE analysis_type \in {"sea_level_rise", "infrastructure_analysis"} ->
             {"country_name", "city_name", "year", "threshold"}
      [] analysis_type = "urban_analysis" ->
             {"country_name", "city_name", "start_year", "end_year", "threshold"}
      [] analysis_type = "topic_modeling" -> {"method", "n_topics"}
      [] OTHER -> {}

\* the question text: the parameter it asks for, and the table it comes from
generate_questions(missing_params, analysis_type) ==
    IF missing_params # <<>> /\ missing_params[1] \in parameter_questions(analysis_type)
    THEN <<"ask", missing_params[1], "template">>
    ELSE IF missing_params # <<>>
    THEN <<"ask", missing_params[1], "default">>
    ELSE <<"more_information_needed">>

(***************************************************************************)
(* detect_analysis_intent (main_agent/tools.py)                            *)
(***************************************************************************)
sea_level_keywords ==
    <<<<"s","e","a"," ","l","e","v","e","l">>,
      <<"s","l","r">>,
      <<"s","e","a"," ","l","e","v","e","l"," ","r","i","s","e">>>>

urban_keywords ==
    <<<<"u","r","b","a","n">>,
      <<"u","r","b","a","n"," ","a","n","a","l","y","s","i","s">>>>

infrastructure_keywords ==
    <<<<"i","n","f","r","a","s","t","r","u","c","t","u","r","e">>,
      <<"i","n","f","r","a","s","t","r","u","c","t","u","r","e"," ","e","x","p","o","s","u","r","e">>>>

topic_modeling_keywords ==
    <<<<"t","o","p","i","c"," ","m","o","d","e","l","i","n","g">>,
      <<"t","o","p","i","c"," ","a","n","a","l","y","s","i","s">>>>

\* any(keyword in message_lower for keyword in keywords)
AnyIn(keywords, message_lower) ==
    \E n \in DOMAIN keywords : Contains(message_lower, keywords[n])

\* a variant of IntentIn that tests the urban keywords before the sea level keywords
IntentInUrbanFirst(message_lower) ==
    IF AnyIn(urban_keywords, message_lower)
    THEN [intent |-> "urban_analysis", confidence |-> <<9, 10>>]
    ELSE IF AnyIn(sea_level_keywords, message_lower)
    THEN [intent |-> "sea_level_rise", confidence |-> <<9, 10>>]
    ELSE IF AnyIn(infrastructure_keywords, message_lower)
    THEN [intent |-> "infrastructure_analysis", confidence |-> <<9, 10>>]
    ELSE IF AnyIn(topic_modeling_keywords, message_lower)
    THEN [intent |-> "topic_modeling", confidence |-> <<9, 10>>]
    ELSE [intent |-> "None", confidence |-> <<0, 10>>]

\* the if / elif chain over the keyword lists
IntentIn(message_lower) ==
    IF AnyIn(sea_level_keywords, message_lower)
    THEN [intent |-> "sea_level_rise", confidence |-> <<9, 10>>]
    ELSE IF AnyIn(urban_keywords, message_lower)
    THEN [intent |-> "urban_analysis", confidence |-> <<9, 10>>]
    ELSE IF AnyIn(infrastructure_keywords, message_lower)
    THEN [intent |-> "infrastructure_analysis", confidence |-> <<9, 10>>]
    ELSE IF AnyIn(topic_modeling_keywords, message_lower)
    THEN [intent |-> "topic_modeling", confidence |-> <<9, 10>>]
    ELSE [intent |-> "None", confidence |-> <<0, 10>>]

detect_analysis_intent(message) == IntentIn(StrLower(message))

(***************************************************************************)
(* Main agent (main_agent/agent.py): the per-user state and the handlers.  *)
(* A handler yields the user state it leaves, the dict it returns and      *)
(* whether it raised instead of returning.  An entry of                    *)
(* conversation_context is kept as its role; its content and timestamp     *)
(* are not read by any handler.                                            *)
(***************************************************************************)
\* the default of user_states (adk_chat.py) and of setup_before_agent_call
DefaultUserState ==
    [status |-> "idle",
     analysis_type |-> "None",
     collected_params |-> EmptyDict,
     conversation_context |-> <<>>]

ContextEntry(role) == [role |-> role]

\* collected.get(key, "None"): the value as it is displayed, <<>> for "None"
Show(collected, key) == IF key \in DOMAIN collected THEN <<collected[key]>> ELSE <<>>

\* an uncaught exception leaves the handler: the state is as the handler left it
Raise(user_state, exception) ==
    [state |-> user_state,
     response |-> [message |-> [template |-> exception], status |-> "exception"],
     raised |-> TRUE]

\* analysis_params of execute_analysis
AnalysisParams(analysis_type, params) ==
    Merge(Merge(Merge([task |-> analysis_type,
                       country |-> Show(params, "country_name"),
                       city |-> Show(params, "city_name")],
                      IF analysis_type = "urban_analysis"
                      THEN [year1 |-> Show(params, "start_year"),
                            year2 |-> Show(params, "end_year")]
                      ELSE [year1 |-> Show(params, "year")]),
                IF analysis_type \in {"sea_level_rise", "infrastructure_analysis",
                                      "urban_analysis"}
                THEN [threshold |-> Show(params, "threshold")]
                ELSE EmptyDict),
          IF analysis_type = "topic_modeling"
          THEN [method |-> Get(params, "method", <<"l","d","a">>),
                nTopics |-> Get(params, "n_topics", 10),
                minDf |-> "2.0", maxDf |-> "0.95", ngramRange |-> "1,1",
                inputType |-> "text", textInput |-> "", files |-> <<>>]
          ELSE EmptyDict)

execute_analysis(analysis_type, params, user_state) ==
    [state |-> [user_state EXCEPT
                   !.conversation_context = Append(@, ContextEntry("assistant"))],
     response |->
         [message |-> [template |-> "analysis_executed",
                       analysis_type |-> analysis_type,
                       country |-> Show(params, "country_name"),
                       city |-> Show(params, "city_name"),
                       year |-> Show(params, "year"),
                       threshold |-> Show(params, "threshold")],
          status |-> "analysis_completed",
          analysis_type |-> analysis_type,
          collected_params |-> params,
          redirect_to_manual |-> TRUE,
          manual_analysis_params |-> AnalysisParams(analysis_type, params),
          dashboard_updated |-> TRUE],
     raised |-> FALSE]

\* handle_new_request: country first, then city, then the first missing parameter
NewRequestQuestion(missing_params, analysis_type) ==
    IF InSeq("country_name", missing_params) THEN <<"ask", "country_name", "agent">>
    ELSE IF InSeq("city_name", missing_params) THEN <<"ask", "city_name", "agent">>
    ELSE generate_questions(<<missing_params[1]>>, analysis_type)

\* the branch `if param_result["needs_more_info"]`: missing_params[0] of an empty list raises
NewRequestAsk(collecting, analysis_type, missing_params) ==
    IF ~InSeq("country_name", missing_params)
       /\ ~InSeq("city_name", missing_params) /\ missing_params = <<>>
    THEN Raise(collecting, "IndexError")
    ELSE [state |-> [collecting EXCEPT
                        !.conversation_context = Append(@, ContextEntry("assistant"))],
          response |->
              [message |-> [template |-> "help_with_analysis",
                            analysis_type |-> analysis_type,
                            question |-> NewRequestQuestion(missing_params, analysis_type)],
               analysis_type |-> analysis_type,
               status |-> "collecting_parameters",
               needs_clarification |-> TRUE],
          raised |-> FALSE]

\* a variant of NewRequestCollected that executes the analysis on what was extracted
NewRequestCollectedAlways(collecting, analysis_type, param_result) ==
    execute_analysis(analysis_type, param_result.params, collecting)

\* what follows collect_parameters: param_result["params"] is not stored in user_state
NewRequestCollected(collecting, analysis_type, param_result) ==
    IF param_result.needs_more_info
    THEN NewRequestAsk(collecting, analysis_type, param_result.validation.missing)
    ELSE execute_analysis(analysis_type, param_result.params, collecting)

\* a variant of GeneralChat that forgets the parameters of the last analysis
GeneralChatForgetting(user_state, is_new_chat) ==
    [state |-> [user_state EXCEPT !.collected_params = EmptyDict],
     response |->
         [message |-> [template |->
                          IF is_new_chat THEN "welcome" ELSE "intent_not_understood"],
          status |-> "general_chat"],
     raised |-> FALSE]

\* the branch without an intent: the welcome for a new chat, the apology otherwise
GeneralChat(user_state, is_new_chat) ==
    [state |-> user_state,
     response |->
         [message |-> [template |->
                          IF is_new_chat THEN "welcome" ELSE "intent_not_understood"],
          status |-> "general_chat"],
     raised |-> FALSE]

\* a variant of IntentHandled that does not assign the analysis type
IntentHandledUntyped(message, user_state, is_new_chat, analysis_type) ==
    IF analysis_type # "None"
    THEN NewRequestCollected([user_state EXCEPT !.status = "collecting_parameters",
                                                !.collected_params = EmptyDict],
                             analysis_type,
                             collect_parameters(message, analysis_type, EmptyDict))
    ELSE GeneralChat(user_state, is_new_chat)

\* `if analysis_type:` after the intent is detected
IntentHandled(message, user_state, is_new_chat, analysis_type) ==
    IF analysis_type # "None"
    THEN NewRequestCollected([user_state EXCEPT !.status = "collecting_parameters",
                                                !.analysis_type = analysis_type,
                                                !.collected_params = EmptyDict],
                             analysis_type,
                             collect_parameters(message, analysis_type, EmptyDict))
    ELSE GeneralChat(user_state, is_new_chat)

handle_new_request(message, user_state, is_new_chat) ==
    IntentHandled(message, user_state, is_new_chat, detect_analysis_intent(message).intent)

\* confirmation_message of handle_parameter_collection
CollectionSummary(collected, analysis_type) ==
    IF analysis_type = "urban_analysis"
    THEN [country |-> Show(collected, "country_name"),
          city |-> Show(collected, "city_name"),
          start_year |-> Show(collected, "start_year"),
          end_year |-> Show(collected, "end_year"),
          sea_level |-> Show(collected, "threshold"),
          unit |-> IF "threshold" \in DOMAIN collected THEN "m" ELSE ""]
    ELSE [country |-> Show(collected, "country_name"),
          city |-> Show(collected, "city_name"),
          year |-> Show(collected, "year"),
          sea_level |-> Show(collected, "threshold"),
          unit |-> IF "threshold" \in DOMAIN collected THEN "m" ELSE ""]

\* a variant of CollectionQuestion that asks for the city before the country
CollectionQuestionCityFirst(missing_params, analysis_type) ==
    IF InSeq("city_name", missing_params) THEN <<"ask", "city_name", "agent">>
    ELSE IF InSeq("country_name", missing_params) THEN <<"ask", "country_name", "agent">>
    ELSE generate_questions(<<missing_params[1]>>, analysis_type)

\* handle_parameter_collection: country first, then city, then the next missing parameter
CollectionQuestion(missing_params, analysis_type) ==
    IF InSeq("country_name", missing_params) THEN <<"ask", "country_name", "agent">>
    ELSE IF InSeq("city_name", missing_params) THEN <<"ask", "city_name", "agent">>
    ELSE generate_questions(<<missing_params[1]>>, analysis_type)

\* the branch `if not all_collected`: missing_params[0] of an empty list raises
CollectionAsk(updated, missing_params) ==
    IF ~InSeq("country_name", missing_params)
       /\ ~InSeq("city_name", missing_params) /\ missing_params = <<>>
    THEN Raise(updated, "IndexError")
    ELSE [state |-> updated,
          response |->
              [message |-> [template |-> "received_and_ask",
                            summary |-> CollectionSummary(updated.collected_params,
                                                          updated.analysis_type),
                            question |-> CollectionQuestion(missing_params,
                                                            updated.analysis_type)],
               analysis_type |-> updated.analysis_type,
               status |-> "collecting_parameters",
               needs_clarification |-> TRUE],
          raised |-> FALSE]

\* what follows user_state["collected_params"] = param_result["params"]
CollectionResponse(updated, missing_params, all_collected) ==
    IF (\A key \in {"city_name", "country_name"} : key \notin DOMAIN updated.collected_params)
       /\ "suggestion_message" \in DOMAIN updated.collected_params
    THEN [state |-> updated,
          response |->
              [message |-> updated.collected_params["suggestion_message"],
               analysis_type |-> updated.analysis_type,
               status |-> "collecting_parameters",
               needs_clarification |-> TRUE,
               suggestion |-> TRUE],
          raised |-> FALSE]
    ELSE IF ~all_collected
    THEN CollectionAsk(updated, missing_params)
    ELSE [state |-> [updated EXCEPT !.status = "awaiting_confirmation"],
          response |->
              [message |-> [template |-> "is_this_correct",
                            summary |-> CollectionSummary(updated.collected_params,
                                                          updated.analysis_type)],
               analysis_type |-> updated.analysis_type,
               status |-> "awaiting_confirmation",
               needs_clarification |-> TRUE],
          raised |-> FALSE]

\* what follows collect_parameters
ParametersCollected(user_state, param_result) ==
    CollectionResponse([user_state EXCEPT !.collected_params = param_result.params],
                       param_result.validation.missing,
                       are_all_parameters_collected(param_result.params,
                                                    user_state.analysis_type))

handle_parameter_collection(message, user_state) ==
    ParametersCollected(user_state,
                        collect_parameters(message, user_state.analysis_type,
                                           user_state.collected_params))

\* positive_responses and negative_responses, on the model's alphabet
positive_responses == <<<<"y","e","s">>, <<"y">>, <<"o","k">>, <<"o","k","a","y">>>>

negative_responses == <<<<"n","o">>, <<"n">>>>

\* confirmation_message of handle_confirmation
ConfirmationSummary(collected, analysis_type) ==
    IF analysis_type = "urban_analysis"
    THEN [country |-> Show(collected, "country_name"),
          city |-> Show(collected, "city_name"),
          start_year |-> Show(collected, "start_year"),
          end_year |-> Show(collected, "end_year"),
          sea_level |-> Show(collected, "threshold"),
          unit |-> IF "threshold" \in DOMAIN collected THEN "m" ELSE ""]
    ELSE [country |-> Show(collected, "country_name"),
          city |-> Show(collected, "city_name"),
          year |-> Show(collected, "year"),
          sea_level |-> Show(collected, "threshold"),
          unit |-> IF "threshold" \in DOMAIN collected THEN "m" ELSE ""]

\* a variant of RejectedConfirmation that keeps the location and drops the rest
RejectedConfirmationKeepingLocation(user_state) ==
    [state |-> [user_state EXCEPT
                   !.status = "collecting_parameters",
                   !.collected_params =
                       DelKeys(@, DOMAIN @ \ {"city_name", "country_name"})],
     response |->
         [message |-> [template |-> "restart_analysis",
                       analysis_type |-> user_state.analysis_type,
                       question |-> <<"ask", "year", "agent">>],
          analysis_type |-> user_state.analysis_type,
          status |-> "collecting_parameters",
          needs_clarification |-> TRUE],
     raised |-> FALSE]

\* the reply after a rejection: the state is reset and the year is asked for
RejectedConfirmation(user_state) ==
    [state |-> [user_state EXCEPT !.status = "collecting_parameters",
                                  !.collected_params = EmptyDict],
     response |->
         [message |-> [template |-> "restart_analysis",
                       analysis_type |-> user_state.analysis_type,
                       question |-> <<"ask", "year", "agent">>],
          analysis_type |-> user_state.analysis_type,
          status |-> "collecting_parameters",
          needs_clarification |-> TRUE],
     raised |-> FALSE]

\* a variant of UnclearConfirmation that goes back to collecting the parameters
UnclearConfirmationCollecting(user_state) ==
    [state |-> [user_state EXCEPT !.status = "collecting_parameters"],
     response |->
         [message |-> [template |-> "is_this_correct",
                       summary |-> ConfirmationSummary(user_state.collected_params,
                                                       user_state.analysis_type)],
          analysis_type |-> user_state.analysis_type,
          status |-> "awaiting_confirmation",
          needs_clarification |-> TRUE],
     raised |-> FALSE]

\* a variant of UnclearConfirmation that forgets the threshold and the year
UnclearConfirmationForgetting(user_state) ==
    [state |-> [user_state EXCEPT !.collected_params = DelKeys(@, {"threshold", "year"})],
     response |->
         [message |-> [template |-> "is_this_correct",
                       summary |-> ConfirmationSummary(user_state.collected_params,
                                                       user_state.analysis_type)],
          analysis_type |-> user_state.analysis_type,
          status |-> "awaiting_confirmation",
          needs_clarification |-> TRUE],
     raised |-> FALSE]

\* the reply that is neither positive nor negative: the summary is shown again
UnclearConfirmation(user_state) ==
    [state |-> user_state,
     response |->
         [message |-> [template |-> "is_this_correct",
                       summary |-> ConfirmationSummary(user_state.collected_params,
                                                       user_state.analysis_type)],
          analysis_type |-> user_state.analysis_type,
          status |-> "awaiting_confirmation",
          needs_clarification |-> TRUE],
     raised |-> FALSE]

\* a variant of Confirmed that tests the negative responses first
ConfirmedNegativeFirst(message_lower, user_state) ==
    IF AnyIn(negative_responses, message_lower)
    THEN RejectedConfirmation(user_state)
    ELSE IF AnyIn(positive_responses, message_lower)
    THEN execute_analysis(user_state.analysis_type, user_state.collected_params,
                          [user_state EXCEPT !.status = "idle"])
    ELSE UnclearConfirmation(user_state)

\* the if / elif / else over message_lower
Confirmed(message_lower, user_state) ==
    IF AnyIn(positive_responses, message_lower)
    THEN execute_analysis(user_state.analysis_type, user_state.collected_params,
                          [user_state EXCEPT !.status = "idle"])
    ELSE IF AnyIn(negative_responses, message_lower)
    THEN RejectedConfirmation(user_state)
    ELSE UnclearConfirmation(user_state)

handle_confirmation(message, user_state) ==
    Confirmed(StrStrip(StrLower(message)), user_state)

\* a variant of EnteredState in which a new chat keeps the collected parameters
EnteredStateKeepingParams(user_state, is_new_chat) ==
    IF is_new_chat
    THEN [user_state EXCEPT !.status = "idle",
                            !.analysis_type = "None",
                            !.conversation_context = <<ContextEntry("user")>>]
    ELSE [user_state EXCEPT !.conversation_context = Append(@, ContextEntry("user"))]

\* the state with which the handler is entered: reset on a new chat, the message appended
EnteredState(user_state, is_new_chat) ==
    IF is_new_chat
    THEN [user_state EXCEPT !.status = "idle",
                            !.analysis_type = "None",
                            !.collected_params = EmptyDict,
                            !.conversation_context = <<ContextEntry("user")>>]
    ELSE [user_state EXCEPT !.conversation_context = Append(@, ContextEntry("user"))]

\* a variant of Dispatch that takes every message for a new request
DispatchAsNewRequest(message, entered, is_new_chat) ==
    handle_new_request(message, entered, is_new_chat)

\* `# Process by status`
Dispatch(message, entered, is_new_chat) ==
    IF entered.status = "collecting_parameters"
    THEN handle_parameter_collection(message, entered)
    ELSE IF entered.status = "awaiting_confirmation"
    THEN handle_confirmation(message, entered)
    ELSE handle_new_request(message, entered, is_new_chat)

process_user_message(message, user_state, is_new_chat) ==
    Dispatch(message, EnteredState(user_state, is_new_chat), is_new_chat)

(***************************************************************************)
(* State machine.  One step of Spec is one call of process_user_message:   *)
(* the handlers have no suspension point, so a call runs to its end before *)
(* the event loop starts another.  LoopSpec has the event loop itself: the *)
(* requests it has accepted, the call it has started, and the user state   *)
(* that call has read.                                                     *)
(***************************************************************************)
vars == <<user_states, last, tasks, location_matcher>>

\* the users with a state, and those that send messages
Users == {1, 2}

Senders == {1}

\* the longest conversation_context the model follows within one chat
MaxContext == 6

NoCall ==
    [user_id |-> 0, is_new_chat |-> FALSE, handler |-> "none",
     stale |-> {},
     response |-> [message |-> [template |-> "none"], status |-> "none"],
     raised |-> FALSE]

\* the requests the event loop holds at a time
MaxTasks == 2

Slots == 1..MaxTasks

\* no request in the slot
FreeTask == [pc |-> "free", user_id |-> 0, message |-> <<>>, read |-> DefaultUserState]

Init ==
    /\ user_states = [u \in Users |-> DefaultUserState]
    /\ last = NoCall
    /\ tasks = [slot \in Slots |-> FreeTask]
    /\ location_matcher = LoadedData(worldcities)

\* the handler process_user_message dispatches to
HandlerFor(user_state, is_new_chat) ==
    IF ~is_new_chat /\ user_state.status = "collecting_parameters"
    THEN "handle_parameter_collection"
    ELSE IF ~is_new_chat /\ user_state.status = "awaiting_confirmation"
    THEN "handle_confirmation"
    ELSE "handle_new_request"

\* the keys of a location that was not found, or only suggested
StaleLocationKeys == {"location_error", "suggestion_message", "suggested_city", "suggested_country"}

\* a variant of Returned in which the users share one dict
ReturnedToAll(user_id, is_new_chat, handler, result) ==
    /\ Len(result.state.conversation_context) <= MaxContext
    /\ user_states' = [u \in Users |-> result.state]
    /\ last' = [user_id |-> user_id, is_new_chat |-> is_new_chat, handler |-> handler,
                stale |-> StaleLocationKeys \cap DOMAIN user_states[user_id].collected_params,
                response |-> result.response, raised |-> result.raised]

\* the call returned (or raised) result: the user's dict and the record of the call,
\* with the keys of an unsettled location the call found in collected_params
Returned(user_id, is_new_chat, handler, result) ==
    /\ Len(result.state.conversation_context) <= MaxContext
    /\ user_states' = [user_states EXCEPT ![user_id] = result.state]
    /\ last' = [user_id |-> user_id, is_new_chat |-> is_new_chat, handler |-> handler,
                stale |-> StaleLocationKeys \cap DOMAIN user_states[user_id].collected_params,
                response |-> result.response, raised |-> result.raised]

NewRequest ==
    \E user_id \in Senders, message \in Messages, is_new_chat \in BOOLEAN :
        /\ HandlerFor(user_states[user_id], is_new_chat) = "handle_new_request"
        /\ Returned(user_id, is_new_chat, "handle_new_request",
                    process_user_message(message, user_states[user_id], is_new_chat))
        /\ UNCHANGED <<tasks, location_matcher>>

ParameterCollection ==
    \E user_id \in Senders, message \in Messages :
        /\ HandlerFor(user_states[user_id], FALSE) = "handle_parameter_collection"
        /\ Returned(user_id, FALSE, "handle_parameter_collection",
                    process_user_message(message, user_states[user_id], FALSE))
        /\ UNCHANGED <<tasks, location_matcher>>

Confirmation ==
    \E user_id \in Senders, message \in Messages :
        /\ HandlerFor(user_states[user_id], FALSE) = "handle_confirmation"
        /\ Returned(user_id, FALSE, "handle_confirmation",
                    process_user_message(message, user_states[user_id], FALSE))
        /\ UNCHANGED <<tasks, location_matcher>>

Next == NewRequest \/ ParameterCollection \/ Confirmation

Spec == Init /\ [][Next]_vars

(***************************************************************************)
(* The event loop.  send_message_endpoint and send_message are coroutines  *)
(* of one event loop; a request accepted is a task of the loop.  A task    *)
(* runs until it awaits something that suspends it, and between            *)
(* user_state = user_states[user_id] and the return of the handler every   *)
(* await is of a coroutine that itself never suspends                      *)
(* (detect_analysis_intent, collect_parameters, _extract_parameters,       *)
(* execute_analysis): the loop starts no task while one is in the handler. *)
(***************************************************************************)
\* the messages of the requests LoopSpec follows
LoopMessages ==
    { <<"s","e","a"," ","l","e","v","e","l"," ","r","i","s","e">>,
      <<"S","e","o","u","l",","," ","s","e","a"," ","l","e","v","e","l"," ",
        "2","0","2","0"," ","1",".","5","m">>,
      <<"n","o">> }

\* a variant of MayStart: a task is started while another is in the handler
MayStartAnytime(running) ==
    TRUE

\* the loop runs one task at a time: none is started while one is in the handler
MayStart(running) ==
    running = {}

\* send_message_endpoint is called: the request waits for the loop
Accept ==
    \E slot \in Slots, user_id \in Senders, message \in LoopMessages :
        /\ tasks[slot].pc = "free"
        /\ tasks' = [tasks EXCEPT ![slot] = [pc |-> "pending", user_id |-> user_id,
                                             message |-> message,
                                             read |-> DefaultUserState]]
        /\ UNCHANGED <<user_states, last, location_matcher>>

\* the loop starts the task: process_user_message reads user_states[user_id]
Start ==
    \E slot \in Slots :
        /\ tasks[slot].pc = "pending"
        /\ MayStart({s \in Slots : tasks[s].pc = "running"})
        /\ tasks' = [tasks EXCEPT ![slot].pc = "running",
                                  ![slot].read = user_states[tasks[slot].user_id]]
        /\ UNCHANGED <<user_states, last, location_matcher>>

\* the handler returns: what it made of the state it read is the state of the user
Finish ==
    \E slot \in Slots :
        /\ tasks[slot].pc = "running"
        /\ Returned(tasks[slot].user_id, FALSE, HandlerFor(tasks[slot].read, FALSE),
                    process_user_message(tasks[slot].message, tasks[slot].read, FALSE))
        /\ tasks' = [tasks EXCEPT ![slot] = FreeTask]
        /\ UNCHANGED location_matcher

LoopNext == Accept \/ Start \/ Finish

LoopSpec == Init /\ [][LoopNext]_vars

(***************************************************************************)
(* The turns of two users, one call after the other in any order.          *)
(***************************************************************************)
Turn ==
    \E user_id \in Users, message \in LoopMessages, is_new_chat \in BOOLEAN :
        /\ Returned(user_id, is_new_chat, HandlerFor(user_states[user_id], is_new_chat),
                    process_user_message(message, user_states[user_id], is_new_chat))
        /\ UNCHANGED <<tasks, location_matcher>>

PairSpec == Init /\ [][Turn]_vars


(***************************************************************************)
(* The functions of the collector, the matcher and the classifier called   *)
(* on their own.  A behaviour of CallSpec is one call, on an input drawn    *)
(* from a bounded set; last holds the input and what the call returned.    *)
(***************************************************************************)
\* the record of a call of a function: its input and what it returned
CallOf(function, input, response) ==
    [user_id |-> 0, is_new_chat |-> FALSE, handler |-> function, stale |-> {},
     input |-> input, response |-> response, raised |-> FALSE]

\* the years, the location, the threshold and the topic parameters of a params dict
YearChoices ==
    { EmptyDict, [year |-> 2020], [year |-> 2030], [start_year |-> 2014],
      [start_year |-> 2014, end_year |-> 2020], [start_year |-> 2020, end_year |-> 2014],
      [year |-> 2020, end_year |-> 2014] }

LocationChoices ==
    { EmptyDict,
      [country_name |-> <<"J","a","p","a","n">>],
      [city_name |-> <<"T","o","k","y","o">>],
      [city_name |-> <<"T","o","k","y","o">>, country_name |-> <<"J","a","p","a","n">>,
       coordinates |-> [lat |-> 35, lng |-> 139]],
      [city_name |-> <<"T","o","k","y","o">>, country_name |-> <<"J","a","p","a","n">>,
       location_error |-> "location_not_found"],
      [location_error |-> "location_not_found"] }

OtherChoices ==
    { EmptyDict, [threshold |-> 15], [threshold |-> 90], [method |-> <<"l","d","a">>],
      [threshold |-> 15, method |-> <<"l","d","a">>, n_topics |-> 10],
      [n_topics |-> 10] }

\* _validate_parameters(params, analysis_type)
Validate ==
    \E analysis_type \in {"sea_level_rise", "urban_analysis", "infrastructure_analysis",
                          "topic_modeling", "None"},
       years \in YearChoices, location \in LocationChoices, other \in OtherChoices :
        /\ last.handler = "none"
        /\ last' = CallOf("_validate_parameters", analysis_type,
                          Validated(Merge(Merge(years, location), other), analysis_type))
        /\ UNCHANGED <<user_states, tasks, location_matcher>>

\* the years written in the ranges: the ends of valid_years, years in it, years out of it
YearTexts ==
    { <<"1","9","9","9">>, <<"2","0","0","0">>, <<"2","0","1","4">>, <<"2","0","2","0">>,
      <<"2","0","2","4">>, <<"2","0","2","5">> }

\* a range written 'A-B', 'A - B', 'A~B', 'A to B' or 'from A to B'
RangeText(a, form, b) ==
    CASE form = "A-B" -> a \o <<"-">> \o b
      [] form = "A - B" -> a \o <<" ","-"," ">> \o b
      [] form = "A~B" -> a \o <<"~">> \o b
      [] form = "A to B" -> a \o <<" ","t","o"," ">> \o b
      [] form = "from A to B" -> <<"F","r","o","m"," ">> \o a \o <<" ","t","o"," ">> \o b

\* the years _extract_parameters extracts for urban_analysis with no existing_params
UrbanYears(patterns) ==
    [range |-> patterns.range,
     extracted |-> ExtractedYears("urban_analysis", EmptyDict, patterns.range, patterns.year)]

\* _extract_parameters(message, "urban_analysis", {}) on a range: the years
ExtractYearRange ==
    \E a \in YearTexts, b \in YearTexts,
       form \in {"A-B", "A - B", "A~B", "A to B", "from A to B"} :
        /\ last.handler = "none"
        /\ last' = CallOf("_extract_parameters",
                          [first |-> Int4(a, 1), second |-> Int4(b, 1), form |-> form],
                          UrbanYears(PatternsIn(StrLower(RangeText(a, form, b)))))
        /\ UNCHANGED <<user_states, tasks, location_matcher>>

\* the names searched for and the names searched in; "abc" and "abd" are as near to "ab"
MatchTargets ==
    { <<"b","u","s","a","n","n">>, <<"s","e","o","l">>, <<"a","b">>, <<"x","y","z">> }

MatchNames ==
    { <<"b","u","s","a","n">>, <<"s","e","o","u","l">>, <<"a","b","c">>, <<"a","b","d">> }

\* the longest list of candidates
MaxCandidates == 3

\* _find_best_match(target, candidates, threshold), for the thresholds 0.5, 0.8 and 1.0
FindBestMatch ==
    \E target \in MatchTargets, threshold \in {<<1, 2>>, DefaultThreshold, <<1, 1>>},
       n \in 0..MaxCandidates :
        \E candidates \in [1..n -> MatchNames] :
            /\ last.handler = "none"
            /\ last' = CallOf("_find_best_match",
                              [target |-> target, candidates |-> candidates,
                               threshold |-> threshold],
                              _find_best_match(target, candidates, threshold))
            /\ UNCHANGED <<user_states, tasks, location_matcher>>

\* the parts of a location fragment: a city and a country as written in the gazetteer,
\* and each with one letter too many
PlaceTexts ==
    { <<"S","e","o","u","l">>, <<"B","u","s","a","n","n">>, <<"T","o","k","y","o">>,
      <<"J","a","p","a","n">>, <<"J","a","p","a","n","n">> }

\* "first, second", or the single text first
CommaFragment(first, second) ==
    IF second = <<>> THEN first ELSE first \o <<",", " ">> \o second

LookupFunctions == {"find_city", "find_country", "extract_location_from_message"}

\* the inputs of a look-up: a name for find_city and find_country, a fragment and a
\* search_type for extract_location_from_message
LookupInputs(function) ==
    IF function = "extract_location_from_message"
    THEN [first : PlaceTexts, second : PlaceTexts \cup {<<>>},
          search_type : {"auto", "city", "country"}]
    ELSE [first : PlaceTexts, second : {<<>>}, search_type : {"auto"}]

\* location_matcher.<function>(...) with the default threshold
Lookup(function, input) ==
    CASE function = "find_city" -> find_city(input.first, DefaultThreshold)
      [] function = "find_country" -> find_country(input.first, DefaultThreshold)
      [] OTHER -> extract_location_from_message(CommaFragment(input.first, input.second),
                                                input.search_type)

\* the calls a process makes of the matcher, the first of them counted in
MaxCalls == 3

\* the record of a look-up, with the first look-up of the process and the count
LookupOf(function, input, response, earlier, calls) ==
    [user_id |-> 0, is_new_chat |-> FALSE, handler |-> function, stale |-> {},
     input |-> input, response |-> response, raised |-> FALSE,
     earlier |-> earlier, calls |-> calls]

\* the first look-up: none of the three methods assigns an attribute of self
LookUp ==
    \E function \in LookupFunctions :
        \E input \in LookupInputs(function) :
            /\ last.handler = "none"
            /\ last' = LookupOf(function, input, Lookup(function, input),
                                [handler |-> function, input |-> input,
                                 response |-> Lookup(function, input)], 1)
            /\ UNCHANGED <<user_states, tasks, location_matcher>>

\* the look-ups other sessions make in between
OtherLookups ==
    [handler : {"find_city", "find_country"},
     input : [first : {<<"S","e","o","u","l">>, <<"J","a","p","a","n","n">>},
              second : {<<>>}, search_type : {"auto"}]]

\* a further look-up: the first one over again, or one of another session
LookUpAgain ==
    /\ last.handler \in LookupFunctions
    /\ last.calls < MaxCalls
    /\ \E call \in OtherLookups \cup {[handler |-> last.earlier.handler,
                                        input |-> last.earlier.input]} :
           last' = LookupOf(call.handler, call.input, Lookup(call.handler, call.input),
                            last.earlier, last.calls + 1)
    /\ UNCHANGED <<user_states, tasks, location_matcher>>

\* the phrases of a request: a keyword of each analysis type, in mixed case, and
\* a phrase no list has
IntentPhrases ==
    { <<"S","L","R">>, <<"S","e","a"," ","L","e","v","e","l">>, <<"U","r","b","a","n">>,
      <<"i","n","f","r","a","s","t","r","u","c","t","u","r","e">>,
      <<"T","o","p","i","c"," ","m","o","d","e","l","i","n","g">>,
      <<"h","e","l","l","o">>, <<>> }

\* "first second"
TwoPhrases(first, second) == first \o << " " >> \o second

\* detect_analysis_intent(message, callback_context) on a message of two phrases
DetectIntent ==
    \E first \in IntentPhrases, second \in IntentPhrases :
        /\ last.handler = "none"
        /\ last' = CallOf("detect_analysis_intent", TwoPhrases(first, second),
                          detect_analysis_intent(TwoPhrases(first, second)))
        /\ UNCHANGED <<user_states, tasks, location_matcher>>

\* the messages of a collection step: a year, a city, a misspelt city, a country,
\* and a message with no parameter
StepMessages ==
    { <<"2","0","2","0">>, <<"2","0","1","4">>, <<"S","e","o","u","l">>,
      <<"B","u","s","a","n","n">>,
      <<"S","o","u","t","h"," ","K","o","r","e","a">>, <<"h","e","l","l","o">> }

\* the year keys collected before the step
StoredYears ==
    { EmptyDict, [year |-> 2020], [start_year |-> 2014],
      [start_year |-> 2014, end_year |-> 2020], [start_year |-> 2020, end_year |-> 2014] }

\* the location keys collected before the step
StoredLocations ==
    { EmptyDict,
      [location_error |-> "location_not_found"],
      [country_name |-> <<"J","a","p","a","n">>],
      [country_name |-> <<"J","a","p","a","n">>, location_error |-> "location_not_found"],
      [city_name |-> <<"T","o","k","y","o">>, country_name |-> <<"J","a","p","a","n">>,
       coordinates |-> [lat |-> 35, lng |-> 139]],
      [suggested_city |-> <<"B","u","s","a","n">>,
       suggested_country |-> <<"K","o","r","e","a",","," ","S","o","u","t","h">>,
       suggestion_message |-> [template |-> "did_you_mean", city |-> <<"B","u","s","a","n">>,
                               country |-> <<"K","o","r","e","a",","," ","S","o","u","t","h">>],
       location_error |-> "location_not_found", threshold |-> 15] }

\* collect_parameters(message, analysis_type, existing_params)
CollectParameters ==
    \E message \in StepMessages, analysis_type \in {"sea_level_rise", "urban_analysis"},
       years \in StoredYears, location \in StoredLocations :
        /\ last.handler = "none"
        /\ last' = CallOf("collect_parameters",
                          [message |-> message, analysis_type |-> analysis_type,
                           existing_params |-> Merge(years, location)],
                          collect_parameters(message, analysis_type, Merge(years, location)))
        /\ UNCHANGED <<user_states, tasks, location_matcher>>

\* the replies to "Is this information correct?"
Replies ==
    { <<"y","e","s">>, <<"Y">>, <<"n","o">>, <<"N">>, <<"O","K">>, <<"n","o","p","e">>,
      <<"y","e","s"," ","n","o">>, <<"n","o",","," ","y","e","s">>,
      <<"m","a","y","b","e">>, <<"a","n","y">>, <<"w","r","o","n","g">>,
      <<"s","u","r","e">>, <<"h","m","m">>, <<" ","?"," ">> }

\* the states in which a confirmation is awaited
AwaitingStates ==
    { [analysis_type |-> "sea_level_rise", status |-> "awaiting_confirmation",
       collected_params |-> [country_name |-> <<"J","a","p","a","n">>,
                             city_name |-> <<"T","o","k","y","o">>,
                             year |-> 2020, threshold |-> 15],
       conversation_context |-> <<ContextEntry("user")>>],
      [analysis_type |-> "topic_modeling", status |-> "awaiting_confirmation",
       collected_params |-> [method |-> <<"l","d","a">>, n_topics |-> 10],
       conversation_context |-> <<ContextEntry("user")>>] }

\* handle_confirmation(message, user_id, user_state, callback_context)
ConfirmReply ==
    \E message \in Replies, user_state \in AwaitingStates :
        /\ last.handler = "none"
        /\ last' = CallOf("handle_confirmation",
                          [message |-> message, user_state |-> user_state],
                          handle_confirmation(message, user_state).response)
        /\ UNCHANGED <<user_states, tasks, location_matcher>>

\* the response of both `except Exception` branches around collect_parameters
collection_error ==
    [message |-> [template |-> "collection_error"], status |-> "error"]

\* handle_new_request when collect_parameters raises: status, analysis_type and
\* collected_params were assigned before the try
NewRequestFailed(user_state, analysis_type) ==
    [state |-> [user_state EXCEPT !.status = "collecting_parameters",
                                  !.analysis_type = analysis_type,
                                  !.collected_params = EmptyDict],
     response |-> collection_error,
     raised |-> FALSE]

\* handle_parameter_collection when collect_parameters raises: user_state is not
\* assigned; existing_params is the dict of user_state as the failed call left it
CollectionFailed(user_state, existing_params) ==
    [state |-> [user_state EXCEPT !.collected_params = existing_params],
     response |-> collection_error,
     raised |-> FALSE]

\* the handler of a state outside awaiting_confirmation, when collect_parameters raises
\* before (deleted = FALSE) or after (deleted = TRUE) _extract_parameters deleted the
\* stale location keys of existing_params
HandledFailure(message, user_state, analysis_type, deleted) ==
    IF user_state.status = "collecting_parameters"
    THEN CollectionFailed(user_state,
                          IF deleted
                          THEN _extract_parameters(message, user_state.analysis_type,
                                                   user_state.collected_params).existing_params
                          ELSE user_state.collected_params)
    ELSE NewRequestFailed(user_state, analysis_type)

\* the states in which a message reaches collect_parameters
FailingStates ==
    { DefaultUserState,
      [DefaultUserState EXCEPT !.collected_params = [method |-> <<"l","d","a">>,
                                                     n_topics |-> 10]],
      [analysis_type |-> "sea_level_rise", status |-> "collecting_parameters",
       collected_params |-> EmptyDict, conversation_context |-> <<>>],
      [analysis_type |-> "sea_level_rise", status |-> "collecting_parameters",
       collected_params |-> [location_error |-> "location_not_found", threshold |-> 15],
       conversation_context |-> <<>>],
      [analysis_type |-> "urban_analysis", status |-> "collecting_parameters",
       collected_params |-> [city_name |-> <<"T","o","k","y","o">>,
                             country_name |-> <<"J","a","p","a","n">>,
                             coordinates |-> [lat |-> 35, lng |-> 139],
                             start_year |-> 2014],
       conversation_context |-> <<>>] }

\* a turn in which collect_parameters raises
CollectionRaises ==
    \E message \in Messages, user_state \in FailingStates, deleted \in BOOLEAN :
        /\ last.handler = "none"
        /\ user_state.status = "idle" => detect_analysis_intent(message).intent # "None"
        /\ deleted => /\ user_state.status = "collecting_parameters"
                      /\ ExactLocation(LocationOf[message].city, LocationOf[message].country)
        /\ last' = CallOf(IF user_state.status = "idle" THEN "handle_new_request"
                          ELSE "handle_parameter_collection",
                          [message |-> message, user_state |-> user_state,
                           collect_parameters |-> "raises"],
                          HandledFailure(message, user_state,
                                         detect_analysis_intent(message).intent, deleted))
        /\ UNCHANGED <<user_states, tasks, location_matcher>>

CallNext ==
    \/ Validate \/ ExtractYearRange \/ FindBestMatch \/ LookUp \/ LookUpAgain
    \/ DetectIntent \/ CollectParameters \/ ConfirmReply \/ CollectionRaises

CallSpec == Init /\ [][CallNext]_vars
(***************************************************************************)
(* Properties.  A turn is one call of process_user_message: the property   *)
(* of a turn is stated of the result of the call for every message, in     *)
(* every reachable state of the user, and witnessed by a state in which    *)
(* the call has been made (the record last).                               *)
(***************************************************************************)
\* the state with which the handler is entered is in this status
EnteredIn(user_state, is_new_chat, status) ==
    EnteredState(user_state, is_new_chat).status = status

\* the three fields of the dialogue are the same in both states
SameDialogue(before, after) ==
    /\ after.status = before.status
    /\ after.analysis_type = before.analysis_type
    /\ after.collected_params = before.collected_params

\* valid as the specification defines it: every required key is there, every value is
\* in its domain, and an urban analysis starts no later than it ends
ValidByDefinition(params, analysis_type) ==
    /\ \A n \in DOMAIN required_params(analysis_type) :
           required_params(analysis_type)[n] \in DOMAIN params
    /\ \A key \in {"year", "start_year", "end_year"} \cap DOMAIN params :
           params[key] \in 2000..2024
    /\ "threshold" \in DOMAIN params => params["threshold"] \in 5..50
    /\ "method" \in DOMAIN params => InSeq(params["method"], Methods)
    /\ "n_topics" \in DOMAIN params => params["n_topics"] \in 2..20
    /\ analysis_type = "urban_analysis" => params["start_year"] <= params["end_year"]

\* C1: in every reachable state, a user whose status is awaiting_confirmation has
\* collected_params that _validate_parameters finds valid for the user's analysis_type:
\* no required key is missing, no value is outside its domain, and the start year of
\* an urban analysis is not after its end year.
C1_AwaitingConfirmationIsValid ==
    \A u \in Users :
        user_states[u].status = "awaiting_confirmation"
        => /\ _validate_parameters(user_states[u].collected_params,
                                   user_states[u].analysis_type).valid
           /\ ValidByDefinition(user_states[u].collected_params,
                                user_states[u].analysis_type)

\* an urban analysis, with its two years, is awaiting the confirmation
C1_Witness ==
    /\ last.handler = "handle_parameter_collection"
    /\ user_states[last.user_id].status = "awaiting_confirmation"
    /\ user_states[last.user_id].analysis_type = "urban_analysis"
    /\ user_states[last.user_id].collected_params["start_year"]
           < user_states[last.user_id].collected_params["end_year"]

\* C2: execute_analysis is handed the parameters only in a turn that handle_confirmation
\* handled, that is a turn that started in awaiting_confirmation; the handler returns
\* the executor's response for an affirmative reply only.
C2_ExecutedOnlyAfterConfirmation ==
    last.response.status = "analysis_completed" => last.handler = "handle_confirmation"

\* C3: in every reachable state, a user whose status is idle has empty collected_params.
C3_IdleHasNoParameters ==
    \A u \in Users :
        user_states[u].status = "idle" => user_states[u].collected_params = EmptyDict

\* the reply is classified negative: no positive response is in it, a negative one is
ClassifiedNegative(message_lower) ==
    /\ ~AnyIn(positive_responses, message_lower)
    /\ AnyIn(negative_responses, message_lower)

\* the turn ended with no parameter left, collecting, for the same analysis
Restarted(before, result) ==
    /\ ~result.raised
    /\ result.state.collected_params = EmptyDict
    /\ DOMAIN result.state.collected_params = {}
    /\ result.state.status = "collecting_parameters"
    /\ result.state.analysis_type = before.analysis_type

\* C4: a reply classified negative in awaiting_confirmation ends the turn with
\* collected_params empty (no key is left), status collecting_parameters and the
\* analysis_type the turn started with.
C4_NegativeConfirmationClearsAll ==
    \A u \in Users, message \in Messages :
        /\ user_states[u].status = "awaiting_confirmation"
        /\ ClassifiedNegative(StrStrip(StrLower(message)))
        => Restarted(user_states[u], process_user_message(message, user_states[u], FALSE))

\* a confirmation was rejected: the parameters that were awaiting it are gone
C4_Witness ==
    /\ last.handler = "handle_confirmation"
    /\ last.response.message.template = "restart_analysis"
    /\ user_states[last.user_id].status = "collecting_parameters"
    /\ user_states[last.user_id].collected_params = EmptyDict

\* an analysis was executed on the confirmed parameters, and the user is idle
C3_Witness ==
    /\ last.handler = "handle_confirmation"
    /\ last.response.status = "analysis_completed"
    /\ user_states[last.user_id].status = "idle"

\* the values of the required parameters that are in params
RequiredValues(params, analysis_type) ==
    [key \in {required_params(analysis_type)[n] : n \in DOMAIN required_params(analysis_type)}
             \cap DOMAIN params |-> params[key]]

\* the turn ended awaiting the confirmation of the parameters the message carried
AwaitsConfirmationOf(param_result, analysis_type, result) ==
    /\ ~result.raised
    /\ result.state.status = "awaiting_confirmation"
    /\ result.state.analysis_type = analysis_type
    /\ RequiredValues(result.state.collected_params, analysis_type)
           = RequiredValues(param_result.params, analysis_type)

\* the message carries every required parameter of the analysis it asks for
CarriesAll(analysis_type, param_result) ==
    /\ analysis_type # "None"
    /\ param_result.validation.valid

\* what C5 says of the analysis the message asks for
CompleteRequestAwaits(user_state, message, analysis_type) ==
    /\ user_state.status = "idle"
    /\ CarriesAll(analysis_type, collect_parameters(message, analysis_type, EmptyDict))
    => AwaitsConfirmationOf(collect_parameters(message, analysis_type, EmptyDict),
                            analysis_type,
                            process_user_message(message, user_state, FALSE))

\* C5: from idle, a message with an intent keyword from which every required parameter
\* of the detected analysis is extracted in its domain ends the turn in
\* awaiting_confirmation, collected_params holding the values extracted.
C5_CompleteRequestAwaitsConfirmation ==
    \A u \in Users, message \in Messages :
        CompleteRequestAwaits(user_states[u], message, detect_analysis_intent(message).intent)

\* the turn ended collecting, with the values the message carried and no other
CollectsExtracted(param_result, analysis_type, result) ==
    /\ ~result.raised
    /\ result.state.status = "collecting_parameters"
    /\ result.state.analysis_type = analysis_type
    /\ RequiredValues(result.state.collected_params, analysis_type)
           = RequiredValues(param_result.params, analysis_type)

\* the message carries some of the required parameters, not all
CarriesSome(analysis_type, param_result) ==
    /\ analysis_type # "None"
    /\ param_result.validation.missing # <<>>

\* what C6 says of the analysis the message asks for
PartialRequestKeeps(user_state, message, analysis_type) ==
    /\ user_state.status = "idle"
    /\ CarriesSome(analysis_type, collect_parameters(message, analysis_type, EmptyDict))
    => CollectsExtracted(collect_parameters(message, analysis_type, EmptyDict),
                         analysis_type,
                         process_user_message(message, user_state, FALSE))

\* C6: from idle, a message with an intent and some required parameters missing ends
\* the turn in collecting_parameters, analysis_type the detected one, collected_params
\* holding exactly the required values extracted from that message.
C6_PartialRequestKeepsExtracted ==
    \A u \in Users, message \in Messages :
        PartialRequestKeeps(user_states[u], message, detect_analysis_intent(message).intent)

\* C7: every turn in which execute_analysis was handed the parameters ends with the
\* user's status idle.
C7_ExecutedEndsIdle ==
    last.response.status = "analysis_completed"
        => user_states[last.user_id].status = "idle"

\* the handler returned the general-chat response and left the dialogue as it was
ChatOnly(entered, result) ==
    /\ ~result.raised
    /\ result.response.status = "general_chat"
    /\ result.state.status = "idle"
    /\ SameDialogue(entered, result.state)

\* C8: a message received in idle in which no analysis intent is detected leaves the
\* status idle, leaves analysis_type and collected_params as they were, and is
\* answered with a general-chat response.
C8_NoIntentStaysIdle ==
    \A u \in Users, message \in Messages, is_new_chat \in BOOLEAN :
        /\ EnteredIn(user_states[u], is_new_chat, "idle")
        /\ detect_analysis_intent(message).intent = "None"
        => ChatOnly(EnteredState(user_states[u], is_new_chat),
                    process_user_message(message, user_states[u], is_new_chat))

\* a message without an intent was answered after an analysis: its type and its
\* parameters are still there
C8_Witness ==
    /\ last.handler = "handle_new_request"
    /\ last.response.status = "general_chat"
    /\ user_states[last.user_id].status = "idle"
    /\ user_states[last.user_id].analysis_type # "None"
    /\ user_states[last.user_id].collected_params # EmptyDict

\* the reply is neither positive nor negative
Unrecognized(message_lower) ==
    /\ ~AnyIn(positive_responses, message_lower)
    /\ ~AnyIn(negative_responses, message_lower)

\* the summary is presented again, as handle_parameter_collection presented it
SameSummary(before, result) ==
    /\ ~result.raised
    /\ SameDialogue(before, result.state)
    /\ result.response.status = "awaiting_confirmation"
    /\ result.response.message
           = [template |-> "is_this_correct",
              summary |-> CollectionSummary(before.collected_params, before.analysis_type)]

\* C9: a reply in awaiting_confirmation with neither a positive nor a negative response
\* in it leaves status, analysis_type and collected_params as they were and presents
\* the same summary; the state being the same, so does every next such reply.
C9_UnrecognizedReplyChangesNothing ==
    \A u \in Users, message \in Messages :
        /\ user_states[u].status = "awaiting_confirmation"
        /\ Unrecognized(StrStrip(StrLower(message)))
        => SameSummary(user_states[u], process_user_message(message, user_states[u], FALSE))

\* an unrecognized reply was answered with the summary, the confirmation still awaited
C9_Witness ==
    /\ last.handler = "handle_confirmation"
    /\ last.response.message.template = "is_this_correct"
    /\ user_states[last.user_id].status = "awaiting_confirmation"

\* the parameter to ask for: the country, else the city, else the first one missing
\* in the order of required_params
NextToAsk(required, params) ==
    IF "country_name" \in {required[n] : n \in DOMAIN required} \ DOMAIN params
    THEN "country_name"
    ELSE IF "city_name" \in {required[n] : n \in DOMAIN required} \ DOMAIN params
    THEN "city_name"
    ELSE required[SetMin({n \in DOMAIN required : required[n] \notin DOMAIN params})]

\* the response asks for exactly this parameter, and the user is still collecting
AsksFor(param, result) ==
    /\ ~result.raised
    /\ "question" \in DOMAIN result.response.message
    /\ Len(result.response.message.question) = 3
    /\ result.response.message.question[1] = "ask"
    /\ result.response.message.question[2] = param
    /\ result.response.status = "collecting_parameters"
    /\ result.state.status = "collecting_parameters"

\* the turn ended with a required parameter missing and without a suggestion
EndsMissing(param_result, result) ==
    /\ param_result.validation.missing # <<>>
    /\ ~Get(result.response, "suggestion", FALSE)

\* what C10 says of a turn, from the parameters collect_parameters returned in it
AsksInOrder(analysis_type, param_result, result) ==
    EndsMissing(param_result, result)
        => AsksFor(NextToAsk(required_params(analysis_type), param_result.params), result)

\* the turn of handle_new_request for the analysis the message asks for
NewRequestAsksInOrder(user_state, message, is_new_chat, analysis_type) ==
    /\ EnteredIn(user_state, is_new_chat, "idle")
    /\ analysis_type # "None"
    => AsksInOrder(analysis_type,
                   collect_parameters(message, analysis_type, EmptyDict),
                   process_user_message(message, user_state, is_new_chat))

\* the turn of handle_parameter_collection
CollectionAsksInOrder(user_state, message) ==
    user_state.status = "collecting_parameters"
    => AsksInOrder(user_state.analysis_type,
                   collect_parameters(message, user_state.analysis_type,
                                      user_state.collected_params),
                   process_user_message(message, user_state, FALSE))

\* C10: a turn from idle with an intent, or in collecting_parameters, that ends with
\* required parameters missing and without a suggestion asks for country_name if it
\* is missing, else for city_name if it is missing, else for the first missing
\* parameter in the order of required_params; one parameter is asked for and the
\* status is collecting_parameters.
C10_QuestionFollowsPriority ==
    \A u \in Users, message \in Messages :
        /\ CollectionAsksInOrder(user_states[u], message)
        /\ \A is_new_chat \in BOOLEAN :
               NewRequestAsksInOrder(user_states[u], message, is_new_chat,
                                     detect_analysis_intent(message).intent)

\* with the country and the city collected, the year was asked for
C10_Witness ==
    /\ last.handler = "handle_parameter_collection"
    /\ last.response.message.template = "received_and_ask"
    /\ last.response.message.question = <<"ask", "year", "template">>
    /\ {"country_name", "city_name"} \subseteq DOMAIN user_states[last.user_id].collected_params
    /\ user_states[last.user_id].status = "collecting_parameters"

\* the prompt of a restart asks for the parameter a collecting turn with nothing
\* collected asks for
RestartAsksFirst(before, result) ==
    /\ ~result.raised
    /\ "question" \in DOMAIN result.response.message
    /\ result.response.message.question[1] = "ask"
    /\ result.response.message.question[2]
           = NextToAsk(required_params(before.analysis_type), EmptyDict)
    /\ InSeq(result.response.message.question[2], required_params(before.analysis_type))

\* C11: the prompt returned after a reply classified negative in awaiting_confirmation
\* asks for the first parameter of the user's analysis_type in the order of the
\* collecting turns (country_name first where it is required, else the first key of
\* required_params), and never for a key that is not in required_params.
C11_RestartAsksFirstParameter ==
    \A u \in Users, message \in Messages :
        /\ user_states[u].status = "awaiting_confirmation"
        /\ ClassifiedNegative(StrStrip(StrLower(message)))
        => RestartAsksFirst(user_states[u],
                            process_user_message(message, user_states[u], FALSE))

\* the response is the suggestion stored in params, and the user is still collecting
IsSuggestion(params, result) ==
    /\ ~result.raised
    /\ Get(result.response, "suggestion", FALSE)
    /\ result.response.message = params["suggestion_message"]
    /\ result.state.status = "collecting_parameters"

\* what C12 says of a turn, from the parameters collect_parameters returned in it
SuggestionShown(params, result) ==
    "suggestion_message" \in DOMAIN params
        => IF {"city_name", "country_name"} \subseteq DOMAIN params
           THEN ~Get(result.response, "suggestion", FALSE)
           ELSE IsSuggestion(params, result)

\* C12: in a turn of handle_parameter_collection whose merged parameters hold
\* suggestion_message, the response is the suggestion whenever the merged parameters
\* do not hold both city_name and country_name, and it is the question or the summary
\* when they hold both.
C12_SuggestionUnlessCityAndCountry ==
    \A u \in Users, message \in Messages :
        user_states[u].status = "collecting_parameters"
        => SuggestionShown(collect_parameters(message, user_states[u].analysis_type,
                                              user_states[u].collected_params).params,
                           process_user_message(message, user_states[u], FALSE))

\* the turn left no key of an unsettled location, and did not answer with a suggestion
LocationSettled(result) ==
    /\ StaleLocationKeys \cap DOMAIN result.state.collected_params = {}
    /\ ~Get(result.response, "suggestion", FALSE)

\* C13: after a turn of handle_parameter_collection whose message holds an exact city
\* or an exact country, collected_params has none of suggestion_message,
\* suggested_city, suggested_country and location_error, whatever it had before, and
\* the response is not a suggestion.
C13_ExactMatchClearsSuggestion ==
    \A u \in Users, message \in Messages :
        /\ user_states[u].status = "collecting_parameters"
        /\ ExactLocation(LocationOf[message].city, LocationOf[message].country)
        => LocationSettled(process_user_message(message, user_states[u], FALSE))

\* a suggestion was stored when the message came, and the turn left an exact city
\* and nothing of the suggestion
C13_Witness ==
    /\ last.handler = "handle_parameter_collection"
    /\ {"suggestion_message", "suggested_city", "suggested_country"} \subseteq last.stale
    /\ "city_name" \in DOMAIN user_states[last.user_id].collected_params
    /\ StaleLocationKeys \cap DOMAIN user_states[last.user_id].collected_params = {}
    /\ ~Get(last.response, "suggestion", FALSE)

\* every year, threshold and number of topics in params is in its range
StoredInRange(params) ==
    /\ \A key \in {"year", "start_year", "end_year"} \cap DOMAIN params :
           params[key] >= 2000 /\ params[key] <= 2024
    /\ "threshold" \in DOMAIN params => params["threshold"] >= 5 /\ params["threshold"] <= 50
    /\ "n_topics" \in DOMAIN params => params["n_topics"] >= 2 /\ params["n_topics"] <= 20

\* the call left the years of existing_params as they were, and reports as missing
\* those of the required ones that are absent
YearsUntouched(analysis_type, existing_params, param_result) ==
    \A key \in {"year", "start_year", "end_year"} :
        /\ key \in DOMAIN param_result.params <=> key \in DOMAIN existing_params
        /\ key \in DOMAIN existing_params => param_result.params[key] = existing_params[key]
        /\ InSeq(key, required_params(analysis_type)) /\ key \notin DOMAIN existing_params
           => InSeq(key, param_result.validation.missing)

\* a candidate out of its range is no match: the year 2030, the threshold 9 m, 30 topics
OutOfRangeDropped ==
    /\ ExtractYear(<<"2","0","3","0">>) = NoMatch
    /\ ExtractThreshold(<<"9","m">>) = NoMatch
    /\ ExtractNTopics(<<"3","0"," ","t","o","p","i","c","s">>) = NoMatch

\* C14: in every reachable state each year, start_year and end_year of collected_params
\* is in 2000..2024, each threshold in 0.5..5.0 and each n_topics in 2..20; and a
\* candidate out of its range is dropped, never adjusted, and the message "2030",
\* whose one candidate for the year is out of range, stores no year: the years are
\* as they were and an absent required year is reported missing.
C14_StoredValuesInRange ==
    \A u \in Users :
        /\ OutOfRangeDropped
        /\ StoredInRange(user_states[u].collected_params)
        /\ user_states[u].analysis_type # "None"
           => YearsUntouched(user_states[u].analysis_type, user_states[u].collected_params,
                             collect_parameters(<<"2","0","3","0">>,
                                                user_states[u].analysis_type,
                                                user_states[u].collected_params))

\* a threshold is stored and the year, still absent, was asked for: the message
\* "2030" sent now stores no year
C14_Witness ==
    /\ last.handler = "handle_parameter_collection"
    /\ last.response.message.template = "received_and_ask"
    /\ last.response.message.question[2] = "year"
    /\ user_states[last.user_id].status = "collecting_parameters"
    /\ "threshold" \in DOMAIN user_states[last.user_id].collected_params
    /\ "year" \notin DOMAIN process_user_message(<<"2","0","3","0">>,
                                                 user_states[last.user_id],
                                                 FALSE).state.collected_params

\* the turn returned a response; for parameters that are not valid it asks again and
\* the user is still collecting
Reprompted(param_result, result) ==
    /\ ~result.raised
    /\ ~param_result.validation.valid
       => /\ result.response.status = "collecting_parameters"
          /\ result.state.status = "collecting_parameters"

\* C15: every turn of handle_parameter_collection returns a response; when the merged
\* parameters are not valid, also when no required key is missing and only
\* start_year <= end_year fails, it asks again and the status stays
\* collecting_parameters; no turn ends in an exception.
C15_CollectingTurnReturns ==
    \A u \in Users, message \in Messages :
        user_states[u].status = "collecting_parameters"
        => Reprompted(collect_parameters(message, user_states[u].analysis_type,
                                         user_states[u].collected_params),
                      process_user_message(message, user_states[u], FALSE))

\* the messages with which a user completes a request: a city with a year and a
\* threshold, a range of years, the parameters of a topic model
CompletingMessages ==
    { <<"S","e","o","u","l",","," ","s","e","a"," ","l","e","v","e","l"," ",
        "2","0","2","0"," ","1",".","5","m">>,
      <<"2","0","1","4","-","2","0","2","0">>,
      <<"t","o","p","i","c"," ","m","o","d","e","l","i","n","g"," ","l","d","a"," ",
        "1","0"," ","t","o","p","i","c","s">> }

\* the longest sequence of completing messages looked for
MaxCompleting == 3

\* the reply "yes" was answered with the result of execute_analysis
HandedOff(result) ==
    /\ ~result.raised
    /\ result.response.status = "analysis_completed"

\* the user awaits the confirmation, and the reply "yes" hands the parameters off
Confirmable(user_state) ==
    /\ user_state.status = "awaiting_confirmation"
    /\ HandedOff(process_user_message(<<"y","e","s">>, user_state, FALSE))

\* at most n completing messages bring the user to a confirmation that hands off
RECURSIVE CanComplete(_, _)
CanComplete(user_state, n) ==
    \/ Confirmable(user_state)
    \/ /\ n > 0
       /\ \E message \in CompletingMessages :
              CanComplete(process_user_message(message, user_state, FALSE).state, n - 1)

\* C16: no reachable state of a user is a trap: from it some finite sequence of
\* messages of the same chat brings the user to awaiting_confirmation, where an
\* affirmative reply hands the parameters to execute_analysis; this holds also
\* where a suggested location is stored.
C16_NoTrapState ==
    \A u \in Users : CanComplete(user_states[u], MaxCompleting)

\* a suggestion was stored when the message came, and the turn left the user
\* awaiting the confirmation
C16_Witness ==
    /\ last.handler = "handle_parameter_collection"
    /\ "suggestion_message" \in last.stale
    /\ user_states[last.user_id].status = "awaiting_confirmation"
    /\ Confirmable(user_states[last.user_id])

\* C17: two calls of process_user_message for one user never interleave their read,
\* merge and write of the user's state: one call at a time is in the handler, and the
\* state it read is still the state of the user when it writes, so the state after
\* two concurrent requests is the state after the two calls one after the other.
C17_CallsDoNotInterleave ==
    /\ Cardinality({slot \in Slots : tasks[slot].pc = "running"}) <= 1
    /\ \A slot \in Slots :
           tasks[slot].pc = "running" => tasks[slot].read = user_states[tasks[slot].user_id]

\* two requests of one user are in the loop, one of them in the handler, after
\* another call has changed the state of that user
C17_Witness ==
    /\ tasks[1].pc = "running"
    /\ tasks[2].pc = "pending"
    /\ tasks[1].user_id = tasks[2].user_id
    /\ last.user_id = tasks[1].user_id
    /\ user_states[tasks[1].user_id].status = "collecting_parameters"

\* C18: a call of process_user_message for one user leaves the status, analysis_type,
\* collected_params and conversation_context of every other user as they were,
\* whatever the order of the two users' turns; so a user who has sent nothing has the
\* default state, whatever the other user has done.
C18_OtherUsersUntouched ==
    [][\A u \in Users : u # last'.user_id => user_states'[u] = user_states[u]]_vars

\* the two users are in the middle of different analyses, the last turn being that
\* of the second user
C18_Witness ==
    /\ user_states[1].status = "awaiting_confirmation"
    /\ user_states[2].status = "collecting_parameters"
    /\ user_states[2].collected_params = EmptyDict
    /\ user_states[1].collected_params # EmptyDict
    /\ last.user_id = 2

\* C19: in every reachable state the conversation_context of each user holds at most
\* 5 entries.
C19_ContextHoldsAtMostFive ==
    \A u \in Users : Len(user_states[u].conversation_context) <= 5

\* C20: the parameters execute_analysis is handed, from handle_new_request or from
\* handle_confirmation, are valid for the analysis type it is handed:
\* _validate_parameters finds them valid, and they are valid as the specification
\* defines it.
C20_ExecutedParametersAreValid ==
    last.response.status = "analysis_completed"
        => /\ _validate_parameters(last.response.collected_params,
                                   last.response.analysis_type).valid
           /\ ValidByDefinition(last.response.collected_params, last.response.analysis_type)

\* execute_analysis was handed the confirmed parameters of an urban analysis
C20_Witness ==
    /\ last.handler = "handle_confirmation"
    /\ last.response.status = "analysis_completed"
    /\ last.response.analysis_type = "urban_analysis"
    /\ {"start_year", "end_year", "threshold", "city_name", "country_name"}
           \subseteq DOMAIN last.response.collected_params

\* the turn left the location settled on Seoul, without the keys of a suggestion
SettledOnSeoul(result) ==
    /\ {"city_name", "country_name"} \subseteq DOMAIN result.state.collected_params
    /\ result.state.collected_params["city_name"] = <<"S","e","o","u","l">>
    /\ result.state.collected_params["country_name"]
           = <<"K","o","r","e","a",","," ","S","o","u","t","h">>
    /\ StaleLocationKeys \cap DOMAIN result.state.collected_params = {}

\* the response is the next question or the summary, not a suggestion
AnsweredWithoutSuggestion(result) ==
    /\ ~result.raised
    /\ ~Get(result.response, "suggestion", FALSE)
    /\ result.response.message.template \in {"received_and_ask", "is_this_correct"}

\* the merged parameters miss nothing and the start year is after the end year
OnlyYearsReversed(params, analysis_type) ==
    /\ _validate_parameters(params, analysis_type).missing = <<>>
    /\ StartAfterEnd(params, analysis_type)

\* what C21 says of the turn, but for the turn that raises on reversed years
ResolvedWhenAnswered(analysis_type, result) ==
    /\ SettledOnSeoul(result)
    /\ IF OnlyYearsReversed(result.state.collected_params, analysis_type)
       THEN result.raised
       ELSE AnsweredWithoutSuggestion(result)

\* C21 (as the code has it): in collecting_parameters with a suggestion stored, the
\* reply "no, Seoul" is resolved as the city Seoul: the turn ends with city_name and
\* country_name of Seoul and without the keys of the suggestion, and the response is
\* the next question or the summary, not the suggestion, unless nothing is missing
\* and start_year is after end_year, where the handler raises instead of answering.
C21_NegatedReplyResolvesCityWhenAnswered ==
    \A u \in Users :
        /\ user_states[u].status = "collecting_parameters"
        /\ "suggestion_message" \in DOMAIN user_states[u].collected_params
        => ResolvedWhenAnswered(user_states[u].analysis_type,
                                process_user_message(<<"n","o",","," ","S","e","o","u","l">>,
                                                     user_states[u], FALSE))

\* what C21 says of the turn
ResolvedAsSeoul(result) ==
    /\ SettledOnSeoul(result)
    /\ AnsweredWithoutSuggestion(result)

\* C21 (as stated): in collecting_parameters with a suggestion stored, the reply
\* "no, Seoul" is resolved as the city Seoul: the turn ends with city_name and
\* country_name of Seoul, without the keys of the suggestion, and the response is the
\* next question or the summary, not the suggestion.
C21_NegatedReplyResolvesCity ==
    \A u \in Users :
        /\ user_states[u].status = "collecting_parameters"
        /\ "suggestion_message" \in DOMAIN user_states[u].collected_params
        => ResolvedAsSeoul(process_user_message(<<"n","o",","," ","S","e","o","u","l">>,
                                                user_states[u], FALSE))

\* a suggestion of Busan was stored when the message came; the turn left the city
\* Seoul, nothing of the suggestion, and asked for the next parameter
C21_Witness ==
    /\ last.handler = "handle_parameter_collection"
    /\ "suggested_city" \in last.stale
    /\ last.response.message.template = "received_and_ask"
    /\ Get(user_states[last.user_id].collected_params, "city_name", <<>>)
           = <<"S","e","o","u","l">>
    /\ StaleLocationKeys \cap DOMAIN user_states[last.user_id].collected_params = {}
    /\ LocationOf[<<"n","o",","," ","S","e","o","u","l">>].city.found

\* the places of the keys of missing in required are in ascending order
InSchemaOrder(missing, required) ==
    \A i, j \in DOMAIN missing :
        i < j => \E a, b \in DOMAIN required :
                     a < b /\ required[a] = missing[i] /\ required[b] = missing[j]

\* missing is the required keys that are absent, in the order of required, and valid
\* says that nothing is missing and nothing is invalid
ValidationAsSpecified(params, required, validation) ==
    /\ {validation.missing[n] : n \in DOMAIN validation.missing}
           = {required[n] : n \in DOMAIN required} \ DOMAIN params
    /\ InSchemaOrder(validation.missing, required)
    /\ validation.valid <=> (validation.missing = <<>> /\ validation.invalid = <<>>)

GoodRange(first, second) ==
    /\ first >= 2000 /\ first <= 2024
    /\ second >= 2000 /\ second <= 2024
    /\ first <= second

\* the years of a good range are extracted as they are; another range gives no pair
RangeAsWritten(first, second, years) ==
    IF GoodRange(first, second)
    THEN /\ years.range = <<first, second>>
         /\ years.extracted = [start_year |-> first, end_year |-> second]
    ELSE /\ years.range = <<>>
         /\ ~({"start_year", "end_year"} \subseteq DOMAIN years.extracted)

\* C23: for urban_analysis a range 'A-B', 'A to B' or 'from A to B' with both years in
\* 2000..2024 and A <= B gives start_year = A and end_year = B; a range that is
\* reversed or has a year out of 2000..2024 sets neither year from the range pattern.
C23_RangeGivesStartAndEnd ==
    last.handler = "_extract_parameters"
        => RangeAsWritten(last.input.first, last.input.second, last.response)

\* the range 2014-2020 was extracted as start_year 2014 and end_year 2020
C23_Witness ==
    /\ last.handler = "_extract_parameters"
    /\ last.input = [first |-> 2014, second |-> 2020, form |-> "A-B"]
    /\ last.response.extracted = [start_year |-> 2014, end_year |-> 2020]

\* the places of the candidates whose score is at or above the threshold
AtOrAbove(target, candidates, threshold) ==
    {n \in DOMAIN candidates :
        ~FracLess(_calculate_similarity(target, candidates[n]), threshold)}

\* place n has the highest score of the places in passing, and is the first to have it
FirstOfBest(target, candidates, passing, n) ==
    /\ n \in passing
    /\ \A m \in passing :
           /\ ~FracLess(_calculate_similarity(target, candidates[n]),
                        _calculate_similarity(target, candidates[m]))
           /\ m < n => FracLess(_calculate_similarity(target, candidates[m]),
                                _calculate_similarity(target, candidates[n]))

\* the match returned is the first of the best of the passing candidates, with its
\* score; it is no candidate exactly when none passes
BestOfPassing(target, candidates, passing, response) ==
    IF passing = {}
    THEN response.best_match = <<>>
    ELSE \E n \in passing :
             /\ FirstOfBest(target, candidates, passing, n)
             /\ response.best_match = candidates[n]
             /\ response.best_score = _calculate_similarity(target, candidates[n])

\* C24: for every target, list of candidates and threshold, _find_best_match returns a
\* candidate whose score is at or above the threshold and the highest of all
\* candidates, the first in the list among those of equal score; it returns no
\* candidate exactly when no candidate scores at or above the threshold.
C24_BestMatchIsFirstMaximum ==
    last.handler = "_find_best_match"
        => BestOfPassing(last.input.target, last.input.candidates,
                         AtOrAbove(last.input.target, last.input.candidates,
                                   last.input.threshold),
                         last.response)

\* "ab" was searched in a list where "abd" comes before "abc": both score 0.8 and
\* the first is returned
C24_Witness ==
    /\ last.handler = "_find_best_match"
    /\ last.input.target = <<"a","b">>
    /\ last.input.candidates = << <<"s","e","o","u","l">>, <<"a","b","d">>, <<"a","b","c">> >>
    /\ last.input.threshold = DefaultThreshold
    /\ last.response.best_match = <<"a","b","d">>

\* the search of kind for part finds the name as the gazetteer has it
ExactPart(kind, part) ==
    LET result == FindBy(kind, part)
    IN  result.found /\ result.exact_match

\* the result is an exact city
IsExactCity(result) ==
    /\ result.found
    /\ result.exact_match
    /\ "coordinates" \in DOMAIN result

\* an exact part beats a similar one, an exact city beats an exact country
ExactPreferred(kinds, parts, result) ==
    /\ (\E k \in DOMAIN kinds, n \in DOMAIN parts : ExactPart(kinds[k], parts[n]))
           => result.found /\ result.exact_match
    /\ (InSeq("city", kinds) /\ \E n \in DOMAIN parts : ExactPart("city", parts[n]))
           => IsExactCity(result)

\* C25: for a comma-delimited fragment, an exact match in any part is returned
\* in preference to a fuzzy match in any other part, whatever the order of the
\* parts, and an exact city match in any part is returned in preference to an
\* exact country match.
C25_ExactPartPreferred ==
    (last.handler = "extract_location_from_message" /\ last.input.second # <<>>)
        => ExactPreferred(SearchKinds(last.input.search_type),
                          <<last.input.first, last.input.second>>,
                          last.response)

\* "Busann, Seoul" was searched for a city: the answer is the suggestion of Busan
C25_Witness ==
    /\ last.handler = "extract_location_from_message"
    /\ last.input.first = <<"B","u","s","a","n","n">>
    /\ last.input.second = <<"S","e","o","u","l">>
    /\ last.input.search_type = "city"
    /\ last.response.found
    /\ ~last.response.exact_match
    /\ last.response.city = <<"B","u","s","a","n">>

\* the attributes of the matcher are as _load_data left them
AsLoaded == location_matcher = LoadedData(worldcities)

\* the last look-up, where it is the first look-up over again, returned the same
SameAsEarlier(call) ==
    (call.handler = call.earlier.handler /\ call.input = call.earlier.input)
        => call.response = call.earlier.response

IntentOrder ==
    <<"sea_level_rise", "urban_analysis", "infrastructure_analysis", "topic_modeling">>

KeywordsOf(analysis_type) ==
    CASE analysis_type = "sea_level_rise" -> sea_level_keywords
      [] analysis_type = "urban_analysis" -> urban_keywords
      [] analysis_type = "infrastructure_analysis" -> infrastructure_keywords
      [] OTHER -> topic_modeling_keywords

\* the places in IntentOrder of the types whose list has a keyword in the text
ListsHit(message_lower) ==
    {n \in DOMAIN IntentOrder : AnyIn(KeywordsOf(IntentOrder[n]), message_lower)}

\* the earliest type hit, or no intent with confidence 0
EarliestHit(hits, response) ==
    IF hits = {}
    THEN response.intent = "None" /\ response.confidence[1] = 0
    ELSE response.intent = IntentOrder[SetMin(hits)]

\* C27: intent classification tests the keyword lists in the order sea_level_rise,
\* urban_analysis, infrastructure_analysis, topic_modeling and returns the type of
\* the first list with a substring hit in the lower-cased message; a message that
\* hits several lists gets the earliest type, a message that hits none gets no
\* intent with confidence 0.
C27_EarliestKeywordListWins ==
    last.handler = "detect_analysis_intent"
        => EarliestHit(ListsHit(StrLower(last.input)), last.response)

\* "Urban SLR" hits the urban list and the sea level list and is a sea level request
C27_Witness ==
    /\ last.handler = "detect_analysis_intent"
    /\ last.input = <<"U","r","b","a","n"," ","S","L","R">>
    /\ ListsHit(StrLower(last.input)) = {1, 2}
    /\ last.response.intent = "sea_level_rise"

\* params holds a location_error next to a city_name and a country_name that are not empty
ErrorBesidePlace(params) ==
    /\ {"location_error", "city_name", "country_name"} \subseteq DOMAIN params
    /\ params["city_name"] # <<>>
    /\ params["country_name"] # <<>>

\* the two validations report the same parameters missing and the same invalid
SameVerdict(validation, other) ==
    /\ validation.missing = other.missing
    /\ validation.invalid = other.invalid
    /\ validation.valid = other.valid

\* the validation is what it would be with no location_error in params
ErrorIgnored(params, analysis_type, validation) ==
    SameVerdict(validation,
                _validate_parameters(DelKeys(params, {"location_error"}), analysis_type))

\* C28: at the end of every parameter-collection step the collected parameters
\* never hold a location_error together with a non-empty city_name and a
\* non-empty country_name, and a location_error never makes validation report a
\* required field missing or invalid.
C28_LocationErrorSuppressed ==
    /\ last.handler = "collect_parameters"
           => /\ ~ErrorBesidePlace(last.response.params)
              /\ ErrorIgnored(last.response.params, last.input.analysis_type,
                              last.response.validation)
    /\ last.handler = "_validate_parameters"
           => ErrorIgnored(last.response.params, last.input, last.response.validation)

\* Tokyo, Japan was stored and the message "2020" names no place: the step extracts
\* a location_error and returns the parameters without it
C28_Witness ==
    /\ last.handler = "collect_parameters"
    /\ last.input.message = <<"2","0","2","0">>
    /\ last.input.existing_params = [city_name |-> <<"T","o","k","y","o">>,
                                     country_name |-> <<"J","a","p","a","n">>,
                                     coordinates |-> [lat |-> 35, lng |-> 139]]
    /\ "location_error" \in DOMAIN _extract_parameters(last.input.message,
                                                       last.input.analysis_type,
                                                       last.input.existing_params).extracted
    /\ "location_error" \notin DOMAIN last.response.params
    /\ last.response.params["city_name"] = <<"T","o","k","y","o">>

\* the handlers of a turn that does not start in idle
StatusHandlers == {"handle_parameter_collection", "handle_confirmation"}

\* the turn of user_id left the analysis_type of that user as it was
SameAnalysisType(user_id) ==
    user_states'[user_id].analysis_type = user_states[user_id].analysis_type

\* C29: the intent classifier runs only in a turn that starts in idle: a message
\* handled in collecting_parameters or awaiting_confirmation never changes
\* analysis_type, even when it contains the keywords of another analysis type.
C29_OnlyIdleTurnsClassify ==
    [][last'.handler \in StatusHandlers => SameAnalysisType(last'.user_id)]_vars

\* the context ends with the assistant's answer to the request and one user message
OneTurnSinceRequest(context) ==
    /\ Len(context) >= 2
    /\ context[Len(context) - 1].role = "assistant"
    /\ context[Len(context)].role = "user"

\* an urban analysis has, after one collecting turn, the city and the threshold that
\* only "Seoul, sea level 2020 1.5m" gives in one message: the sea level keywords of
\* that message left the analysis urban
C29_Witness ==
    /\ last.handler = "handle_parameter_collection"
    /\ user_states[last.user_id].analysis_type = "urban_analysis"
    /\ OneTurnSinceRequest(user_states[last.user_id].conversation_context)
    /\ {"city_name", "threshold"} \subseteq DOMAIN user_states[last.user_id].collected_params
    /\ detect_analysis_intent(<<"S","e","o","u","l",","," ","s","e","a"," ","l","e","v","e","l"," ","2","0","2","0"," ","1",".","5","m">>).intent
           = "sea_level_rise"

\* the reply is taken as affirmative, as negative, or is not recognized
TakenAs(response) ==
    CASE response.message.template = "analysis_executed" -> "affirmative"
      [] response.message.template = "restart_analysis" -> "negative"
      [] OTHER -> "unrecognized"

\* the class of a reply by the tokens its lower-cased text contains
ClassByTokens(affirmative, negative) ==
    IF affirmative THEN "affirmative"
    ELSE IF negative THEN "negative"
    ELSE "unrecognized"

\* the reply is taken by the tokens it contains; the one-letter tokens count
ByContainment(message_lower, taken) ==
    /\ taken = ClassByTokens(AnyIn(positive_responses, message_lower),
                             AnyIn(negative_responses, message_lower))
    /\ Contains(message_lower, <<"y">>) => taken = "affirmative"
    /\ (Contains(message_lower, <<"n">>) /\ ~AnyIn(positive_responses, message_lower))
           => taken = "negative"

\* C30: a confirmation reply is classified by substring containment with the
\* affirmative list tested first: a reply containing any affirmative token
\* (the one-letter 'y' included) is affirmative even if it also contains a
\* negative token; it is negative exactly when it contains no affirmative token
\* and at least one negative token (the one-letter 'n' included); it is
\* unrecognized exactly when it contains no token of either list.
C30_ReplyClassifiedByContainment ==
    last.handler = "handle_confirmation"
        => ByContainment(StrLower(last.input.message), TakenAs(last.response))

\* "no, yes" holds a token of each list and is taken as a confirmation
C30_Witness ==
    /\ last.handler = "handle_confirmation"
    /\ last.input.message = <<"n","o",","," ","y","e","s">>
    /\ AnyIn(negative_responses, StrLower(last.input.message))
    /\ TakenAs(last.response) = "affirmative"

\* every extracted key that is in params has the extracted value, and only a stale
\* location marker may be extracted and yet not be in params
NewValuesWin(extracted, params) ==
    \A key \in DOMAIN extracted :
        IF key \in DOMAIN params THEN params[key] = extracted[key]
        ELSE key \in StaleLocationKeys

\* every key collected before and not extracted has its value, or was a stale marker
OldValuesKept(existing_params, extracted, params) ==
    \A key \in (DOMAIN existing_params) \ (DOMAIN extracted) :
        IF key \in DOMAIN params THEN params[key] = existing_params[key]
        ELSE key \in StaleLocationKeys

\* params holds nothing but what was collected before or extracted
NothingElse(existing_params, extracted, params) ==
    DOMAIN params \subseteq (DOMAIN existing_params) \cup (DOMAIN extracted)

MergedAsClaimed(existing_params, extracted, params) ==
    /\ NewValuesWin(extracted, params)
    /\ OldValuesKept(existing_params, extracted, params)
    /\ NothingElse(existing_params, extracted, params)

\* C31: in a collecting turn every key extracted from the message has its new value
\* in place of the one collected before, every value collected before whose key is
\* not extracted is kept, and the only keys the turn may remove are the stale
\* location markers location_error, suggestion_message, suggested_city and
\* suggested_country.
C31_NewValuesReplaceOldOnesStay ==
    last.handler = "collect_parameters"
        => MergedAsClaimed(last.input.existing_params,
                           _extract_parameters(last.input.message, last.input.analysis_type,
                                               last.input.existing_params).extracted,
                           last.response.params)

\* year 2020 and a suggestion of Busan were stored, and "Seoul" came: the year and
\* the threshold stay, the city is new and the markers of the suggestion are gone
C31_Witness ==
    /\ last.handler = "collect_parameters"
    /\ last.input.message = <<"S","e","o","u","l">>
    /\ last.input.analysis_type = "sea_level_rise"
    /\ {"suggested_city", "location_error", "year"} \subseteq DOMAIN last.input.existing_params
    /\ last.response.params["year"] = 2020
    /\ last.response.params["threshold"] = 15
    /\ last.response.params["city_name"] = <<"S","e","o","u","l">>
    /\ DOMAIN last.response.params \cap StaleLocationKeys = {}

\* year 2020 was stored and "2014" came: the year is 2014
C31_WitnessReplaced ==
    /\ last.handler = "collect_parameters"
    /\ last.input.message = <<"2","0","1","4">>
    /\ last.input.analysis_type = "sea_level_rise"
    /\ last.input.existing_params = [year |-> 2020]
    /\ last.response.params["year"] = 2014

\* the messages of StepMessages that are one year and nothing else
SingleYears == { <<"2","0","2","0">>, <<"2","0","1","4">> }

\* key has in params the value it had in existing_params, or is in neither
Untouched(existing_params, params, key) ==
    IF key \in DOMAIN existing_params
    THEN key \in DOMAIN params /\ params[key] = existing_params[key]
    ELSE key \notin DOMAIN params

\* params has value under key
Holds(params, key, value) == key \in DOMAIN params /\ params[key] = value

\* the year goes to start_year if there is none yet, and the end_year stays; else
\* the start_year stays, and the year goes to end_year if there is none yet
YearFillsStartThenEnd(existing_params, year, params) ==
    /\ "start_year" \notin DOMAIN existing_params
           => /\ Holds(params, "start_year", year)
              /\ Untouched(existing_params, params, "end_year")
    /\ "start_year" \in DOMAIN existing_params
           => /\ Untouched(existing_params, params, "start_year")
              /\ "end_year" \notin DOMAIN existing_params
                     => Holds(params, "end_year", year)
    /\ "end_year" \in DOMAIN params => "start_year" \in DOMAIN params

\* C32: for urban_analysis a message with a single in-range year and no range is
\* assigned to start_year when start_year is not yet collected and to end_year
\* when start_year is collected and end_year is not; start_year is filled before
\* end_year, and a collected start_year is never changed by a single-year message.
C32_SingleYearFillsStartThenEnd ==
    (/\ last.handler = "collect_parameters"
     /\ last.input.analysis_type = "urban_analysis"
     /\ last.input.message \in SingleYears)
        => YearFillsStartThenEnd(last.input.existing_params,
                                 Int4(last.input.message, 1),
                                 last.response.params)

\* start_year 2014 was stored and "2020" came: end_year is 2020, start_year is 2014
C32_Witness ==
    /\ last.handler = "collect_parameters"
    /\ last.input.analysis_type = "urban_analysis"
    /\ last.input.message = <<"2","0","2","0">>
    /\ last.input.existing_params = [start_year |-> 2014]
    /\ last.response.params["start_year"] = 2014
    /\ last.response.params["end_year"] = 2020

\* neither the city search nor the country search of the message finds a place
NoLocation(message) ==
    /\ ~LocationOf[message]["city"].found
    /\ ~LocationOf[message]["country"].found

\* the keys of a place and of a suggested place
PlaceKeys ==
    {"city_name", "country_name", "coordinates", "suggested_cities",
     "suggested_city", "suggested_country", "suggestion_message"}

\* nothing collected before is gone, no place key is new or changed, and the years,
\* the threshold and the rest of what the message gave are merged in
OnlyMarksError(existing_params, extracted, params) ==
    /\ DOMAIN existing_params \subseteq DOMAIN params
    /\ \A key \in PlaceKeys : Untouched(existing_params, params, key)
    /\ \A key \in (DOMAIN extracted) \ {"location_error"} : Holds(params, key, extracted[key])
    /\ DOMAIN params \subseteq (DOMAIN existing_params) \cup (DOMAIN extracted)

\* the turn returned a question and the user is not idle
AsksOn(result) ==
    /\ ~result.raised
    /\ result.state.status # "idle"
    /\ result.response.message.template \in {"received_and_ask", "is_this_correct", "did_you_mean"}

\* what C33 says of the turn
SoftFailure(user_state, extracted, result) ==
    /\ OnlyMarksError(user_state.collected_params, extracted, result.state.collected_params)
    /\ AsksOn(result)

\* C33 (as stated): a collecting turn whose message resolves to no location is a soft
\* failure: it sets no more than the location_error marker, discards no value
\* collected before, merges the year, threshold and other values of the message,
\* never moves the session to idle, and returns a question to the user.
C33_NoLocationIsSoftFailure ==
    \A u \in Users, message \in Messages :
        (user_states[u].status = "collecting_parameters" /\ NoLocation(message))
        => SoftFailure(user_states[u],
                       _extract_parameters(message, user_states[u].analysis_type,
                                           user_states[u].collected_params).extracted,
                       process_user_message(message, user_states[u], FALSE))

\* what C33 says of the turn, but for the turn that raises on reversed years
SoftFailureWhenAnswered(user_state, extracted, result) ==
    /\ OnlyMarksError(user_state.collected_params, extracted, result.state.collected_params)
    /\ result.state.status # "idle"
    /\ IF OnlyYearsReversed(result.state.collected_params, user_state.analysis_type)
       THEN result.raised
       ELSE AsksOn(result)

\* C33 (as the code has it): the same, unless nothing is missing and start_year is
\* after end_year, where the handler raises instead of asking.
C33_NoLocationIsSoftFailureWhenAnswered ==
    \A u \in Users, message \in Messages :
        (user_states[u].status = "collecting_parameters" /\ NoLocation(message))
        => SoftFailureWhenAnswered(user_states[u],
                                   _extract_parameters(message, user_states[u].analysis_type,
                                                       user_states[u].collected_params).extracted,
                                   process_user_message(message, user_states[u], FALSE))

\* an urban analysis of Seoul with start_year 2020 and a threshold, nothing missing but
\* the end_year: the message "2014" names no place and the turn raises
C33_Witness ==
    \E u \in Users :
        /\ user_states[u].status = "collecting_parameters"
        /\ user_states[u].analysis_type = "urban_analysis"
        /\ NoLocation(<<"2","0","1","4">>)
        /\ process_user_message(<<"2","0","1","4">>, user_states[u], FALSE).raised

\* the turn showed no suggestion of a place, and with method and n_topics collected it
\* ended in awaiting_confirmation
LocationIgnored(result) ==
    /\ ~Get(result.response, "suggestion", FALSE)
    /\ {"method", "n_topics"} \subseteq DOMAIN result.state.collected_params
           => result.state.status = "awaiting_confirmation"

\* C34: for topic_modeling, whose schema has no location field, the outcome of
\* location resolution never affects the dialogue: no location suggestion prompt
\* is returned, and as soon as method and n_topics are both collected the turn
\* ends in awaiting_confirmation whatever the resolver returned for the message.
C34_TopicModelingIgnoresLocation ==
    \A u \in Users, message \in Messages :
        (/\ user_states[u].status = "collecting_parameters"
         /\ user_states[u].analysis_type = "topic_modeling")
        => LocationIgnored(process_user_message(message, user_states[u], FALSE))

\* a topic modeling is collecting, and the turn of "Busann" answers with the
\* suggestion of the city Busan
C34_Witness ==
    \E u \in Users :
        /\ user_states[u].status = "collecting_parameters"
        /\ user_states[u].analysis_type = "topic_modeling"
        /\ Get(process_user_message(<<"B","u","s","a","n","n">>, user_states[u], FALSE).response,
               "suggestion", FALSE)

(***************************************************************************)
(* C35: a fault of collect_parameters inside a turn                        *)
(***************************************************************************)
\* the turns in which collect_parameters raised
FailedCollection ==
    /\ last.handler \in {"handle_new_request", "handle_parameter_collection"}
    /\ "collect_parameters" \in DOMAIN last.input

\* the three fields the turn is to leave alone
SameSession(before, after) ==
    /\ after.status = before.status
    /\ after.analysis_type = before.analysis_type
    /\ after.collected_params = before.collected_params

\* C35: when collect_parameters raises inside a turn, the controller returns an error
\* response instead of propagating the fault, and status, analysis_type and
\* collected_params of the user are as before the turn; a failing turn that started
\* in idle leaves the session idle
C35_FailedCollectionLeavesSession ==
    FailedCollection =>
        /\ ~last.response.raised
        /\ last.response.response.status = "error"
        /\ SameSession(last.input.user_state, last.response.state)

\* the part that holds: the error response is returned, and a collecting turn whose
\* fault comes before the stale keys are deleted leaves the three fields alone
C35_FailedCollectionAnswered ==
    FailedCollection =>
        /\ ~last.response.raised
        /\ last.response.response.status = "error"
        /\ (last.input.user_state.status = "collecting_parameters"
            /\ ~ExactLocation(LocationOf[last.input.message].city,
                              LocationOf[last.input.message].country))
           => SameSession(last.input.user_state, last.response.state)

\* a failing turn that started in idle and ended in collecting_parameters
C35_Witness ==
    /\ FailedCollection
    /\ last.input.user_state.status = "idle"
    /\ last.response.response.status = "error"
    /\ last.response.state.status = "collecting_parameters"
    /\ last.response.state.analysis_type = "urban_analysis"

(***************************************************************************)
(* C36: the location keys of an exact city match                           *)
(***************************************************************************)
\* the messages in which the city search finds an exact match
ExactCityMessages ==
    { message \in Messages : /\ LocationOf[message].city.found
                             /\ Get(LocationOf[message].city, "exact_match", FALSE) }

\* city_name, country_name and coordinates are those of one row of the gazetteer
FromOneRecord(params) ==
    /\ {"city_name", "country_name", "coordinates"} \subseteq DOMAIN params
    /\ \E n \in DOMAIN cities_df :
           /\ params["city_name"] = cities_df[n].city
           /\ params["country_name"] = cities_df[n].country
           /\ params["coordinates"] = [lat |-> cities_df[n].lat, lng |-> cities_df[n].lng]

\* city_name is never stored without country_name and coordinates
CityComplete(params) ==
    "city_name" \in DOMAIN params => {"country_name", "coordinates"} \subseteq DOMAIN params

\* C36: a collecting_parameters turn whose message holds an exact city match leaves
\* city_name, country_name and coordinates of one gazetteer row in collected_params,
\* whatever country_name was collected before; and in every state, where city_name
\* is present, country_name and coordinates are present too
C36_ExactCityGivesOneRecord ==
    \A u \in Users :
        /\ CityComplete(user_states[u].collected_params)
        /\ user_states[u].status = "collecting_parameters"
           => \A message \in ExactCityMessages :
                  FromOneRecord(process_user_message(message, user_states[u],
                                                     FALSE).state.collected_params)

\* the country "South Korea" was collected first; the turn of "Seoul" stored the
\* country of the row of Seoul in its place
C36_Witness ==
    \E u \in Users :
        /\ user_states[u].status = "collecting_parameters"
        /\ Get(user_states[u].collected_params, "country_name", <<>>)
               = <<"S","o","u","t","h"," ","K","o","r","e","a">>
        /\ "city_name" \notin DOMAIN user_states[u].collected_params
        /\ process_user_message(<<"S","e","o","u","l">>, user_states[u],
                                FALSE).state.collected_params["country_name"]
               = <<"K","o","r","e","a",","," ","S","o","u","t","h">>

(***************************************************************************)
(* C37: a message of a new chat                                            *)
(***************************************************************************)
\* the state the handlers of a new chat are dispatched on: the reset, then the append
\* of the message to conversation_context
FreshState ==
    [DefaultUserState EXCEPT !.conversation_context = <<ContextEntry("user")>>]

\* C37: a message processed with is_new_chat set is handled from a fresh state
\* whatever the state of the session: status idle, analysis_type none, empty
\* collected_params and a conversation_context reset to the message itself are there
\* before the dispatch, and the state and the response of the turn are those of the
\* same message sent by a user never seen before
C37_NewChatStartsFresh ==
    \A u \in Users :
        /\ EnteredState(user_states[u], TRUE) = FreshState
        /\ \A message \in Messages :
               process_user_message(message, user_states[u], TRUE)
                   = process_user_message(message, DefaultUserState, TRUE)

\* a new chat began while the session held the keys of an unsettled location: the
\* turn was a new request and left none of them
C37_Witness ==
    /\ last.is_new_chat
    /\ last.handler = "handle_new_request"
    /\ last.stale # {}
    /\ user_states[last.user_id].collected_params = EmptyDict

(***************************************************************************)
(* C38: the parameters between the summary and the executor                *)
(***************************************************************************)
\* the turn entered awaiting_confirmation: the summary is that of the stored values
SummaryOfStored(u) ==
    /\ last'.handler = "handle_parameter_collection"
    /\ last'.user_id = u
    /\ user_states'[u].status = "awaiting_confirmation"
    => /\ last'.response.message.template = "is_this_correct"
       /\ last'.response.message.summary
              = CollectionSummary(user_states'[u].collected_params,
                                  user_states'[u].analysis_type)

\* a turn handled in awaiting_confirmation that stays there leaves collected_params
KeptWhileAwaiting(u) ==
    /\ last'.handler = "handle_confirmation"
    /\ last'.user_id = u
    /\ user_states'[u].status = "awaiting_confirmation"
    => user_states'[u].collected_params = user_states[u].collected_params

\* the affirmative reply hands collected_params, as the turn found it, to the executor
HandedOver(u) ==
    /\ last'.handler = "handle_confirmation"
    /\ last'.user_id = u
    /\ last'.response.status = "analysis_completed"
    => /\ user_states[u].status = "awaiting_confirmation"
       /\ last'.response.collected_params = user_states[u].collected_params
       /\ last'.response.manual_analysis_params
              = AnalysisParams(user_states[u].analysis_type,
                               user_states[u].collected_params)

\* C38: the parameters handed to the executor on an affirmative reply are the
\* collected_params summarised when the session entered awaiting_confirmation: the
\* summary of the entering turn is that of the stored values, a message handled in
\* awaiting_confirmation that leaves the session there adds, changes and removes
\* nothing, and the affirmative reply hands over collected_params as it found it
C38_ConfirmedParametersHandedOver ==
    [][\A u \in Users : SummaryOfStored(u) /\ KeptWhileAwaiting(u) /\ HandedOver(u)]_vars

\* an affirmative reply handed the stored city, year and threshold to the executor
C38_Witness ==
    /\ last.handler = "handle_confirmation"
    /\ last.response.status = "analysis_completed"
    /\ {"city_name", "year", "threshold"} \subseteq DOMAIN last.response.collected_params
    /\ last.response.collected_params = user_states[last.user_id].collected_params

\* the summary was shown again on an unclear reply: the session still awaits the
\* confirmation of the same values
C38_WitnessUnclear ==
    /\ last.handler = "handle_confirmation"
    /\ last.response.status = "awaiting_confirmation"
    /\ user_states[last.user_id].status = "awaiting_confirmation"
    /\ "threshold" \in DOMAIN user_states[last.user_id].collected_params

(***************************************************************************)
(* C39: the values of status and analysis_type                             *)
(***************************************************************************)
\* the three values of status
Statuses == {"idle", "collecting_parameters", "awaiting_confirmation"}

\* the analysis types: the keys of required_params
AnalysisTypes ==
    {"sea_level_rise", "urban_analysis", "infrastructure_analysis", "topic_modeling"}

\* status is one of the three values, and outside idle an analysis type is set
WellFormed(user_state) ==
    /\ user_state.status \in Statuses
    /\ user_state.status \in {"collecting_parameters", "awaiting_confirmation"}
       => user_state.analysis_type \in AnalysisTypes

\* the state of a user who has sent no message yet is the default of user_states
AsCreated(user_state) ==
    user_state.conversation_context = <<>> =>
        /\ user_state.status = "idle"
        /\ user_state.analysis_type = "None"
        /\ user_state.collected_params = EmptyDict

\* C39: in every reachable state the status of a user is idle,
\* collecting_parameters or awaiting_confirmation, and in collecting_parameters and
\* awaiting_confirmation the analysis_type is one of the four supported types, never
\* none; the state of a user before the first message is idle, with analysis_type
\* none and empty collected_params
C39_StatusAndTypeWellFormed ==
    \A u \in Users : WellFormed(user_states[u]) /\ AsCreated(user_states[u])

\* one user awaits the confirmation of an urban analysis, the other has sent nothing
C39_Witness ==
    \E u, v \in Users :
        /\ user_states[u].status = "awaiting_confirmation"
        /\ user_states[u].analysis_type = "urban_analysis"
        /\ user_states[v].conversation_context = <<>>
        /\ user_states[v] = DefaultUserState

=============================================================================
